---- MODULE Spec2Model ----
(***************************************************************************)
(* JtlSync: synchronisation of VirtueMart (Joomla) orders into JTL-Wawi.   *)
(*                                                                         *)
(* The model covers the sync commands (src-tauri/src/commands/sync.rs),    *)
(* the engine (sync/engine.rs), the order processor (sync/processor.rs),   *)
(* the JTL REST client (api/jtl.rs), the stats store (sync/stats.rs) and   *)
(* the abort flag (utils/abort.rs).                                        *)
(*                                                                         *)
(* Background tasks are spawned on the tokio runtime; a step of a task is  *)
(* the code between two suspension points (a remote call, a database call  *)
(* or a sleep).  The Joomla database and the JTL REST API are the          *)
(* environment: every call returns or fails, a failing call changes        *)
(* nothing remotely.  Event emission (app_handle.emit) is taken to         *)
(* succeed.                                                                *)
(***************************************************************************)
EXTENDS Integers, Sequences, FiniteSets, TLC

VARIABLES
    ABORT_FLAG,     \* utils/abort.rs: the process-wide AtomicBool
    SYNC_STATS,     \* sync/stats.rs: HashMap<String, SyncStats>
    customers,      \* JTL: the customers, customers[i] has Id i; src is the order it was created for
    orders,         \* JTL: the sales orders, orders[i] has Id i
    task,           \* the spawned background tasks, one record per slot
    runs,           \* start commands accepted so far
    failures,       \* environment calls that have failed so far
    configured,     \* history: the lookback hours last configured for each shop id
    SYNCED_ORDERS,  \* commands/sync.rs: HashMap<String, Vec<VirtueMartOrder>>
    reply,          \* history: what the last start command returned to its caller
    pool_count,     \* history: Pool::new calls that succeeded, per shop id
    call,           \* the application of a function: its arguments and its result
    config          \* config/app.rs: the AppConfig the configuration functions work on

vars == <<ABORT_FLAG, SYNC_STATS, customers, orders, task, runs, failures, configured,
          SYNCED_ORDERS, reply, pool_count, call, config>>

----------------------------------------------------------------------------
(* Bounds *)

MaxRuns == 1
MaxFailures == 1
MaxOrders == 2
MaxItems == 2
MaxPaymentId == 60

Tasks == {1, 2}

----------------------------------------------------------------------------
(* Option<T> and the strings the code builds *)

None == <<>>
Some(v) == <<v>>
unwrap_or_default(o) == IF o = None THEN 0 ELSE o[1]

\* serde_json::Value of an "Id" field: a JSON number or a JSON string of digits
JsonId(kind, n) == [kind |-> kind, v |-> n]

\* JTL answers with numeric Ids: create_order reads the order's with as_i64
IdJsonKind == "num"

\* Value::as_str: Some only for a JSON string
as_str(j) == IF j.kind = "str" THEN Some(ToString(j.v)) ELSE None

\* Value::as_i64: Some only for a JSON number
as_i64(j) == IF j.kind = "num" THEN Some(j.v) ELSE None

\* Value::to_string (Display): the JSON text, a string keeps its quotes
to_string(j) == IF j.kind = "num" THEN ToString(j.v)
                ELSE "\"" \o ToString(j.v) \o "\""

\* str::parse::<i32>().unwrap_or_default()
parse_i32_or_default(s) ==
    LET range == 0 .. (Len(customers) + Len(orders) + 1)
    IN IF \E n \in range : ToString(n) = s
       THEN CHOOSE n \in range : ToString(n) = s
       ELSE 0

----------------------------------------------------------------------------
(* Configuration and source data *)

\* config.shops, in order; current_shop_index = 0
ConfigShops == <<"a", "b", "c", "e">>
ConfigShopIds == {ConfigShops[i] : i \in DOMAIN ConfigShops}
get_current_shop == ConfigShops[1]

\* config/shop.rs ShopConfig: the id, and the name for the rest of the record
ShopConfig(id, name) == [id |-> id, name |-> name]

\* the AppConfig load_config returns; the synchronisation runs work on it
LoadedConfig ==
    [shops |-> [i \in DOMAIN ConfigShops |-> ShopConfig(ConfigShops[i], "n0")],
     current_shop_index |-> 0]

\* config.shops.iter().position(|s| s.id == shop_id): 0-based, None if absent
position(shops, shop_id) ==
    IF \E i \in DOMAIN shops : shops[i].id = shop_id
    THEN Some((CHOOSE i \in DOMAIN shops :
                  /\ shops[i].id = shop_id
                  /\ \A j \in DOMAIN shops : shops[j].id = shop_id => i <= j) - 1)
    ELSE None

\* AppConfig::get_current_shop: the shop at current_shop_index, the first
\* one when the index is out of range, the built-in default when there is none
AppConfig_get_current_shop(cfg) ==
    IF cfg.shops = <<>> THEN ShopConfig("shop1", "Default Shop")
    ELSE cfg.shops[(IF cfg.current_shop_index < Len(cfg.shops)
                    THEN cfg.current_shop_index ELSE 0) + 1]

\* what a configuration function leaves: its result and the AppConfig
Outcome(result, cfg) == [result |-> result, config |-> cfg]

\* save_config(config)?: the function's result once the AppConfig is changed
Saved(saved, cfg) == Outcome(IF saved THEN "Ok" ELSE "Err", cfg)

add_shop(cfg, shop, saved) ==
    IF \E i \in DOMAIN cfg.shops : cfg.shops[i].id = shop.id
    THEN Outcome("Err", cfg)
    ELSE Saved(saved, [cfg EXCEPT !.shops = Append(@, shop)])

update_shop(cfg, shop, saved) ==
    LET shop_index == position(cfg.shops, shop.id)
    IN IF shop_index = None THEN Outcome("Err", cfg)
       ELSE Saved(saved, [cfg EXCEPT !.shops[shop_index[1] + 1] = shop])

\* a remove_shop that lets the last shop go
remove_shop_last(cfg, shop_id, saved) ==
    LET retained == SelectSeq(cfg.shops, LAMBDA s : s.id # shop_id)
    IN IF Len(retained) < Len(cfg.shops)
       THEN Saved(saved, [cfg EXCEPT !.shops = retained])
       ELSE Outcome("Err", cfg)

remove_shop(cfg, shop_id, saved) ==
    LET initial_len == Len(cfg.shops)
        retained == SelectSeq(cfg.shops, LAMBDA s : s.id # shop_id)
    IN IF initial_len <= 1 THEN Outcome("Err", cfg)
       ELSE IF Len(retained) < initial_len
            THEN Saved(saved,
                    [cfg EXCEPT !.shops = retained,
                                !.current_shop_index =
                                    IF @ >= Len(retained) THEN 0 ELSE @])
            ELSE Outcome("Err", [cfg EXCEPT !.shops = retained])

set_current_shop(cfg, shop_id, saved) ==
    LET shop_index == position(cfg.shops, shop_id)
    IN IF shop_index = None THEN Outcome("Err", cfg)
       ELSE Saved(saved, [cfg EXCEPT !.current_shop_index = shop_index[1]])

\* utils/mapping.rs
DEFAULT_PAYMENT_METHOD_ID == 20
PAYMENT_METHOD_MAPPING ==
    (2 :> 38) @@ (14 :> 4) @@ (4 :> 2) @@ (5 :> 4) @@ (6 :> 39) @@
    (8 :> 27) @@ (9 :> 9) @@ (10 :> 34) @@ (17 :> 10)

\* a mapping that passes an unknown id through
map_payment_method_passthrough(payment_method_id) ==
    IF payment_method_id = None THEN DEFAULT_PAYMENT_METHOD_ID
    ELSE IF payment_method_id[1] \in DOMAIN PAYMENT_METHOD_MAPPING
         THEN PAYMENT_METHOD_MAPPING[payment_method_id[1]]
         ELSE payment_method_id[1]

map_payment_method(payment_method_id) ==
    IF payment_method_id = None THEN DEFAULT_PAYMENT_METHOD_ID
    ELSE IF payment_method_id[1] \in DOMAIN PAYMENT_METHOD_MAPPING
         THEN PAYMENT_METHOD_MAPPING[payment_method_id[1]]
         ELSE DEFAULT_PAYMENT_METHOD_ID

\* db/models.rs VirtueMartOrder, the fields the engine and the processor read
VirtueMartOrder(id, userinfo, status, pay) ==
    [virtuemart_order_id |-> id,
     virtuemart_order_userinfo_id |-> userinfo,
     order_status |-> status,
     virtuemart_paymentmethod_id |-> pay]

\* get_orders_within_timeframe: the shop's orders in the window, newest first.
\* Shop "a" has MaxOrders orders, each with its own userinfo row; shop "b" has
\* one, paid by card.  Shop "e" has no order in the window.
\* Shop "c" is a second Joomla installation whose ids overlap those of shop "a"
\* (order 2, userinfo row 12), and it has two orders without a userinfo id.
SourceOrders(shop) ==
    IF shop = "a"
    THEN [i \in 1..MaxOrders |->
            LET id == MaxOrders + 1 - i
            IN VirtueMartOrder(id, Some(10 + id),
                               IF id % 2 = 1 THEN Some("C") ELSE Some("P"),
                               IF id = 1 THEN Some(4) ELSE Some(5))]
    ELSE IF shop = "b"
    THEN <<VirtueMartOrder(5, Some(25), Some("C"), Some(5))>>
    ELSE IF shop = "c"
    THEN <<VirtueMartOrder(4, None, None, None),
           VirtueMartOrder(3, None, None, None),
           VirtueMartOrder(2, Some(12), None, None)>>
    ELSE <<>>

----------------------------------------------------------------------------
(* sync/stats.rs *)

DEFAULT_SYNC_HOURS == 24

DEFAULT_STATS ==
    [shop_id |-> "", total_orders |-> 0, synced_orders |-> 0,
     skipped_orders |-> 0, error_orders |-> 0, aborted |-> FALSE,
     sync_hours |-> DEFAULT_SYNC_HOURS]

\* a store that keeps one record for all shops
update_sync_stats_single(store, stats) == [k \in {stats.shop_id} |-> stats]

update_sync_stats(store, stats) ==
    [k \in DOMAIN store \cup {stats.shop_id} |->
        IF k = stats.shop_id THEN stats ELSE store[k]]

get_shop_stats(store, shop_id) ==
    IF shop_id \in DOMAIN store THEN store[shop_id]
    ELSE [DEFAULT_STATS EXCEPT !.shop_id = shop_id]

\* update_shop_sync_hours' result: the validation of hours
update_shop_sync_hours_result(hours) == IF hours <= 0 THEN "Err" ELSE "Ok"

\* an update that always inserts a fresh record
update_shop_sync_hours_insert(store, shop_id, hours) ==
    update_sync_stats(store,
        [DEFAULT_STATS EXCEPT !.shop_id = shop_id, !.sync_hours = hours])

\* the store after update_shop_sync_hours(shop_id, hours) with hours > 0
update_shop_sync_hours(store, shop_id, hours) ==
    IF shop_id \in DOMAIN store
    THEN [store EXCEPT ![shop_id].sync_hours = hours]
    ELSE update_sync_stats(store,
            [DEFAULT_STATS EXCEPT !.shop_id = shop_id, !.sync_hours = hours])

\* a reset that clears the total and keeps the counters
ShopStatsResetTotalOnly(store, shop_id) ==
    IF shop_id \in DOMAIN store
    THEN [store EXCEPT ![shop_id].total_orders = 0]
    ELSE store

\* the store after reset_shop_stats(shop_id)
ShopStatsReset(store, shop_id) ==
    IF shop_id \in DOMAIN store
    THEN [store EXCEPT ![shop_id].total_orders = 0,
                       ![shop_id].synced_orders = 0,
                       ![shop_id].skipped_orders = 0,
                       ![shop_id].error_orders = 0,
                       ![shop_id].aborted = FALSE]
    ELSE store

\* get_current_stats: the first entry the HashMap iterates, any of them
get_current_stats(store) ==
    IF DOMAIN store = {} THEN {DEFAULT_STATS}
    ELSE {store[k] : k \in DOMAIN store}

\* the snapshots get_sync_stats(shop_id) can return
get_sync_stats(store, shop_id) ==
    IF shop_id = None THEN get_current_stats(store)
    ELSE {get_shop_stats(store, shop_id[1])}

\* history: `hours` is the value last configured for `shop_id`
Configure(conf, shop_id, hours) ==
    [k \in DOMAIN conf \cup {shop_id} |-> IF k = shop_id THEN hours ELSE conf[k]]

\* the value last configured for the shop, 24 if none was
ConfiguredHours(conf, shop_id) ==
    IF shop_id \in DOMAIN conf THEN conf[shop_id] ELSE DEFAULT_SYNC_HOURS

Counted(stats) == stats.synced_orders + stats.skipped_orders + stats.error_orders

----------------------------------------------------------------------------
(* utils/abort.rs *)

\* a loop that never sees the flag
should_abort_never == FALSE

should_abort == ABORT_FLAG

----------------------------------------------------------------------------
(* db/connection.rs *)

\* history: one more Pool::new has succeeded for `shop_id`
PoolCreated(count, shop_id) ==
    [k \in DOMAIN count \cup {shop_id} |->
        IF k \notin DOMAIN count THEN 1
        ELSE IF k = shop_id THEN count[k] + 1 ELSE count[k]]

----------------------------------------------------------------------------
(* The background tasks *)

\* A task slot.  pc is the suspension point the task is at; the fields up to
\* order_id are the locals of the spawned closure, of sync_multiple_shops,
\* sync_shop and process_order.  The remaining fields are history: what the
\* task has done, recorded for the properties below.
IdleTask ==
    [pc |-> "idle",
     kind |-> "none",           \* "single" | "multi" | "scheduled"
     queue |-> <<>>,            \* sync_multiple_shops: shop ids still to visit
     shop |-> "",               \* sync_shop: shop.id
     hours |-> 0,               \* sync_shop: hours
     pools |-> {},              \* engine.conn_manager.pools: shop ids with a pool
     fetched |-> <<>>,          \* sync_shop: orders
     idx |-> 1,                 \* sync_shop: position of the for loop in orders
     stats |-> DEFAULT_STATS,   \* sync_shop: stats
     customer_id |-> "",        \* process_order: customer_id
     order_id |-> 0,            \* create_order: order_id
     ret |-> "none",            \* sync_shop's result: "none" | "Ok" | "Err"
     batch_ret |-> "none",      \* sync_multiple_shops' result: "none" | "Ok"
     batch_event |-> "none",    \* history: the event the spawned closure emitted on that result
     requested |-> <<>>,        \* history: the shop ids the batch was started with
     journal |-> <<>>,          \* history: sync_shop calls, their completion events, error logs
     emitted |-> None,          \* history: payload of the last sync-stats-update event
     stopped |-> FALSE,         \* history: the check between shops saw the abort flag
     heldShop |-> None,         \* history: sync_shop calls made when the abort flag was set, while it stays set
     invoked |-> <<>>,          \* history: order ids process_order was invoked for in this sync_shop
     outcomes |-> <<>>,         \* history: what process_order returned for them, in order
     trace |-> <<>>,            \* history: remote calls of the current process_order
     exists |-> "none",         \* history: what check_order_exists returned for the current order
     outcome |-> "none",        \* history: what process_order returned last
     failed |-> "none",         \* history: the call that failed in the current process_order
     resolved |-> 0,            \* history: JTL's Id of the customer resolved for the current order
     abortReq |-> FALSE,        \* history: abort_sync_command ran while this run was active
     abortAt |-> None,          \* history: orders begun when the abort flag was set, while it stays set
     heldAt |-> None,           \* history: abortAt when sync_shop returned
     solo |-> TRUE,             \* history: no other run was active during this run
     clean |-> TRUE,            \* history: no environment call failed during this run
     second |-> FALSE]          \* history: the run before it on this shop ended complete and clean

Active(t) == task[t].pc \notin {"idle", "done"}

ProcessPcs == {"get_customer", "create_customer", "check_order_exists",
               "create_order", "add_order_items", "set_payment_paid", "set_order_hold"}

\* the sync_shop calls a task has made
Visits(tk) == Len(SelectSeq(tk.journal, LAMBDA e : e[1] = "sync_shop"))

\* sync_shop has been entered and has not returned
InSyncShop(t) == task[t].pc \in ProcessPcs \cup {"loop"}

\* the lowest free slot among `slots`
FreeSlots(slots) == {t \in slots : ~Active(t)}
FreeSlot(slots) == CHOOSE t \in FreeSlots(slots) : \A u \in FreeSlots(slots) : t <= u

\* an environment call may fail while the failure budget lasts
MayFail == failures < MaxFailures

----------------------------------------------------------------------------
(* Commands: src-tauri/src/commands/sync.rs *)

\* reset_abort_flag as seen by the runs: the flag no longer stays set
ClearHeld(tk) == [tk EXCEPT !.abortAt = None, !.heldShop = None]

\* the tasks after a start command has spawned record `new` in slot `t`
Spawn(t, new) ==
    [u \in Tasks |->
        IF u = t THEN new
        ELSE IF Active(u) THEN [ClearHeld(task[u]) EXCEPT !.solo = FALSE]
        ELSE task[u]]

PrevClean(shop) ==
    /\ shop \in DOMAIN SYNC_STATS
    /\ LET st == SYNC_STATS[shop]
       IN /\ st.total_orders = Len(SourceOrders(shop))
          /\ st.synced_orders + st.skipped_orders = st.total_orders
          /\ st.error_orders = 0
          /\ ~st.aborted

ShopIdInputs == {None, Some("a"), Some("b"), Some("x")}
HoursInputs == {None, Some(0), Some(48)}
ManualListInputs == {<<>>, <<"a", "x", "a">>}
ScheduledListInputs == {<<>>, <<"b", "a">>, <<"b", "b", "b">>}
OverlapListInputs == {<<>>, <<"b", "a">>}
TwoShopListInputs == {<<"a", "c">>, <<"c", "a">>}

\* the order as the synced-orders list holds it: order.shop_id = Some(shop_id)
WithShopId(order, shop_id) ==
    [virtuemart_order_id |-> order.virtuemart_order_id,
     virtuemart_order_userinfo_id |-> order.virtuemart_order_userinfo_id,
     order_status |-> order.order_status,
     virtuemart_paymentmethod_id |-> order.virtuemart_paymentmethod_id,
     shop_id |-> Some(shop_id)]

\* SYNCED_ORDERS after add_synced_order(shop_id, order)
add_synced_order(store, shop_id, order) ==
    [k \in DOMAIN store \cup {shop_id} |->
        IF k = shop_id
        THEN Append(IF k \in DOMAIN store THEN store[k] ELSE <<>>,
                    WithShopId(order, shop_id))
        ELSE store[k]]

\* the orders in which a HashMap can iterate the keys `S`
KeyOrders(S) ==
    {f \in [1..Cardinality(S) -> S] : \A i, j \in 1..Cardinality(S) : f[i] = f[j] => i = j}

RECURSIVE FlatMap(_, _)
FlatMap(store, keys) ==
    IF keys = <<>> THEN <<>> ELSE store[Head(keys)] \o FlatMap(store, Tail(keys))

\* the lists get_synced_orders(shop_id) can return
get_synced_orders(store, shop_id) ==
    IF shop_id # None
    THEN {IF shop_id[1] \in DOMAIN store THEN store[shop_id[1]] ELSE <<>>}
    ELSE {FlatMap(store, keys) : keys \in KeyOrders(DOMAIN store)}

\* history: no start command has returned yet
NoReply == [cmd |-> "none", args |-> <<>>, result |-> "none"]

\* a start command returns Ok(()) after spawning its task
Accepted(cmd) == [cmd |-> cmd, args |-> <<>>, result |-> "Ok"]

\* a start command returns Err before it has changed anything
Reject(cmd, args) ==
    /\ reply' = [cmd |-> cmd, args |-> args, result |-> "Err"]
    /\ UNCHANGED <<ABORT_FLAG, SYNC_STATS, customers, orders, task, runs, failures,
                   configured, SYNCED_ORDERS, pool_count, call, config>>

\* a start command that does not validate the hours
ValidStartAnyHours(shop_id, hours) ==
    shop_id = None \/ shop_id[1] \in ConfigShopIds

\* start_sync_command goes on to spawn: the shop id, when given, is in the
\* configuration, and update_shop_sync_hours accepts the hours, when given
ValidStart(shop_id, hours) ==
    /\ shop_id = None \/ shop_id[1] \in ConfigShopIds
    /\ hours = None \/ hours[1] > 0

start_sync_command(slots, limit, shop_id, hours) ==
    /\ runs < limit
    /\ FreeSlots(slots) # {}
    /\ LET shop == IF shop_id = None THEN get_current_shop ELSE shop_id[1]
           sync_hours == IF hours = None
                         THEN get_shop_stats(SYNC_STATS, shop).sync_hours
                         ELSE hours[1]
           t == FreeSlot(slots)
       IN IF ~ValidStart(shop_id, hours)
          THEN Reject("start_sync_command", <<shop_id, hours>>)
          ELSE /\ reply' = Accepted("start_sync_command")
               /\ SYNC_STATS' = IF hours = None THEN SYNC_STATS
                                ELSE update_shop_sync_hours(SYNC_STATS, shop, hours[1])
               /\ ABORT_FLAG' = FALSE
               /\ task' = Spawn(t, [IdleTask EXCEPT
                                      !.pc = "sync_shop", !.kind = "single",
                                      !.shop = shop, !.hours = sync_hours,
                                      !.journal = <<<<"sync_shop", shop>>>>,
                                      !.solo = \A u \in Tasks : ~Active(u),
                                      !.second = PrevClean(shop)])
               /\ runs' = runs + 1
               /\ configured' = IF hours = None THEN configured
                                ELSE Configure(configured, shop, hours[1])
               /\ UNCHANGED <<customers, orders, failures, SYNCED_ORDERS, pool_count, call, config>>

\* the spawned batch: reset_abort_flag, then tauri::async_runtime::spawn
SpawnBatch(slots, kind, shop_ids) ==
    /\ reply' = Accepted(IF kind = "multi" THEN "start_multi_sync_command"
                         ELSE "start_scheduled_sync")
    /\ ABORT_FLAG' = FALSE
    /\ task' = Spawn(FreeSlot(slots), [IdleTask EXCEPT
                        !.pc = "sync_multiple_shops", !.kind = kind,
                        !.queue = shop_ids, !.requested = shop_ids,
                        !.solo = \A u \in Tasks : ~Active(u)])
    /\ runs' = runs + 1
    /\ UNCHANGED <<SYNC_STATS, customers, orders, failures, configured, SYNCED_ORDERS, pool_count, call, config>>

start_multi_sync_command(slots, limit, shop_ids) ==
    /\ runs < limit
    /\ FreeSlots(slots) # {}
    /\ IF shop_ids = <<>>
       THEN Reject("start_multi_sync_command", <<shop_ids>>)
       ELSE SpawnBatch(slots, "multi", shop_ids)

start_scheduled_sync(slots, limit, shop_ids) ==
    /\ runs < limit
    /\ FreeSlots(slots) # {}
    /\ IF shop_ids = <<>>
       THEN Reject("start_scheduled_sync", <<shop_ids>>)
       ELSE SpawnBatch(slots, "scheduled", shop_ids)

SetHoursShopInputs == {"a", "b"}
SetHoursInputs == {0, 48}
ResetShopInputs == {"a"}

set_sync_hours(shop_id, hours) ==
    IF hours <= 0
    THEN UNCHANGED vars
    ELSE /\ SYNC_STATS' = update_shop_sync_hours(SYNC_STATS, shop_id, hours)
         /\ configured' = Configure(configured, shop_id, hours)
         /\ UNCHANGED <<ABORT_FLAG, customers, orders, task, runs, failures, SYNCED_ORDERS, reply, pool_count, call, config>>

reset_shop_stats(shop_id) ==
    /\ SYNC_STATS' = ShopStatsReset(SYNC_STATS, shop_id)
    /\ UNCHANGED <<ABORT_FLAG, customers, orders, task, runs, failures, configured, SYNCED_ORDERS, reply, pool_count, call, config>>

reset_all_stats ==
    /\ SYNC_STATS' = <<>>
    /\ UNCHANGED <<ABORT_FLAG, customers, orders, task, runs, failures, configured, SYNCED_ORDERS, reply, pool_count, call, config>>

abort_sync_command ==
    /\ ABORT_FLAG' = TRUE
    /\ task' = [t \in Tasks |->
                  IF ~Active(t) THEN task[t]
                  ELSE [task[t] EXCEPT
                          !.abortReq = TRUE,
                          !.abortAt = IF @ # None THEN @
                                      ELSE IF InSyncShop(t) THEN Some(Len(task[t].invoked))
                                      ELSE Some(0),
                          !.heldShop = IF @ # None THEN @ ELSE Some(Visits(task[t]))]]
    /\ UNCHANGED <<SYNC_STATS, customers, orders, runs, configured, failures, SYNCED_ORDERS, reply, pool_count, call, config>>

----------------------------------------------------------------------------
(* The JTL REST API as the client sees it: src-tauri/src/api/jtl.rs *)

\* what an environment call can do: return, or fail while the budget lasts
Returns == IF MayFail THEN {TRUE, FALSE} ELSE {TRUE}

Spend(ok) == failures' = IF ok THEN failures ELSE failures + 1

\* GET customers?searchKeyWord=<number>: the Ids of the customers with that number
CustomersWithNumber(number) == {i \in DOMAIN customers : customers[i].Number = number}

\* Items[0] of the search result
FirstCustomer(number) ==
    CHOOSE i \in CustomersWithNumber(number) :
        \A j \in CustomersWithNumber(number) : i <= j

\* GET salesOrders?externalOrderNumber=..&customerId=..: TotalItems > 0
OrderExistsRemotely(order_number, customer_id) ==
    \E i \in DOMAIN orders :
        /\ orders[i].ExternalNumber = order_number
        /\ ToString(orders[i].CustomerId) = customer_id

\* create_order that drops add_order_items' error
CreateOrderResultIgnored(attached) == "Ok"

\* create_order's result once the header is created: add_order_items(..).await?
CreateOrderResult(attached) == IF attached THEN "Ok" ELSE "Err"

----------------------------------------------------------------------------
(* The order processor: src-tauri/src/sync/processor.rs *)

customer_number(order) ==
    "VM" \o ToString(unwrap_or_default(order.virtuemart_order_userinfo_id))

order_number(order) == "VM" \o ToString(order.virtuemart_order_id)

\* a processor that creates the customer whatever the lookup found
AfterCustomerLookupAlwaysCreate(found) == "create_customer"

\* the match on get_customer_by_id's answer
AfterCustomerLookup(found) ==
    IF found THEN "check_order_exists" ELSE "create_customer"

\* customer_id when the lookup found the customer
CustomerIdFound(id_json) ==
    IF as_str(id_json) = None THEN "0" ELSE as_str(id_json)[1]

\* customer_id when the customer was just created
CustomerIdCreated(id_json) == to_string(id_json)

\* process_order that goes on to create whatever the check answered
AfterOrderCheckCreate(exists) == "create"

\* the branch taken on check_order_exists' answer
AfterOrderCheck(exists) == IF exists THEN "skipped" ELSE "create"

\* `let _ = client.set_payment_paid(..).await`: the result is dropped
AfterMarkPaid(ok) == "set_order_hold"

\* a processor that escalates a failed put-on-hold
AfterOrderHoldStrict(ok) == IF ok THEN "synced" ELSE "error"

\* `let _ = client.set_order_hold(..).await; Ok(true)`: the result is dropped
AfterOrderHold(ok) == "synced"

\* JtlOrderItem; prices are in cents
JtlOrderItem(quantity, gross, tax_rate, name, net) ==
    [Quantity |-> quantity, SalesPriceGross |-> Some(gross), TaxRate |-> tax_rate,
     Name |-> name, SalesUnit |-> "stk", SalesPriceNet |-> Some(net),
     PurchasePriceNet |-> None]

\* x / 1.19
net_of_gross(x) == (x * 100) \div 119

\* a list that gets a shipping line for a shipment cost of zero as well
all_items_zero_shipping(items, shop_name, order) ==
    LET product == [i \in DOMAIN items |->
                      JtlOrderItem(items[i].product_quantity,
                                   items[i].product_final_price, 19,
                                   "[" \o shop_name \o "] " \o items[i].order_item_name,
                                   IF items[i].product_priceWithoutTax # None
                                   THEN items[i].product_priceWithoutTax[1]
                                   ELSE net_of_gross(items[i].product_final_price))]
        discount == unwrap_or_default(order.coupon_discount)
        coupon == IF order.coupon_code # None /\ order.coupon_code[1] # ""
                  THEN <<JtlOrderItem(1, discount, 0,
                            "[" \o shop_name \o "] Coupon: " \o order.coupon_code[1],
                            discount)>>
                  ELSE <<>>
        shipping == IF order.order_shipment # None /\ order.order_shipment[1] >= 0
                    THEN <<JtlOrderItem(1, order.order_shipment[1], 19,
                              "[" \o shop_name \o "] Shipping",
                              net_of_gross(order.order_shipment[1]))>>
                    ELSE <<>>
    IN product \o coupon \o shipping

\* process_order: the line list it hands to create_order
all_items(items, shop_name, order) ==
    LET product == [i \in DOMAIN items |->
                      JtlOrderItem(items[i].product_quantity,
                                   items[i].product_final_price, 19,
                                   "[" \o shop_name \o "] " \o items[i].order_item_name,
                                   IF items[i].product_priceWithoutTax # None
                                   THEN items[i].product_priceWithoutTax[1]
                                   ELSE net_of_gross(items[i].product_final_price))]
        discount == unwrap_or_default(order.coupon_discount)
        coupon == IF order.coupon_code # None /\ order.coupon_code[1] # ""
                  THEN <<JtlOrderItem(1, discount, 0,
                            "[" \o shop_name \o "] Coupon: " \o order.coupon_code[1],
                            discount)>>
                  ELSE <<>>
        shipping == IF order.order_shipment # None /\ order.order_shipment[1] > 0
                    THEN <<JtlOrderItem(1, order.order_shipment[1], 19,
                              "[" \o shop_name \o "] Shipping",
                              net_of_gross(order.order_shipment[1]))>>
                    ELSE <<>>
    IN product \o coupon \o shipping

\* a test that marks card payments as paid as well
IsPaidAnyMethod(order) == order.order_status = Some("C")

\* the "already paid" test before set_payment_paid
IsPaid(order) ==
    /\ order.order_status = Some("C")
    /\ map_payment_method(order.virtuemart_paymentmethod_id) # 4

----------------------------------------------------------------------------
(* The engine: src-tauri/src/sync/engine.rs *)

\* a match that counts a synced order twice
ClassifySyncedTwice(stats, outcome) ==
    IF outcome = "synced" THEN [stats EXCEPT !.synced_orders = @ + 2]
    ELSE IF outcome = "skipped" THEN [stats EXCEPT !.skipped_orders = @ + 1]
    ELSE [stats EXCEPT !.error_orders = @ + 1]

\* a match that counts a failed order as skipped
ClassifyErrorAsSkipped(stats, outcome) ==
    IF outcome = "synced" THEN [stats EXCEPT !.synced_orders = @ + 1]
    ELSE [stats EXCEPT !.skipped_orders = @ + 1]

\* a match that reads Ok(processed) the wrong way round
ClassifySwapped(stats, outcome) ==
    IF outcome = "synced" THEN [stats EXCEPT !.skipped_orders = @ + 1]
    ELSE IF outcome = "skipped" THEN [stats EXCEPT !.synced_orders = @ + 1]
    ELSE [stats EXCEPT !.error_orders = @ + 1]

\* the match on process_order's result in sync_shop
Classify(stats, outcome) ==
    IF outcome = "synced" THEN [stats EXCEPT !.synced_orders = @ + 1]
    ELSE IF outcome = "skipped" THEN [stats EXCEPT !.skipped_orders = @ + 1]
    ELSE [stats EXCEPT !.error_orders = @ + 1]

\* a loop that walks the fetched orders from the end
CurrentOrderReversed(t) == task[t].fetched[Len(task[t].fetched) + 1 - task[t].idx]

CurrentOrder(t) == task[t].fetched[task[t].idx]

\* process_order returns `outcome`: sync_shop counts it, publishes the stats,
\* sleeps, and is back at the head of the for loop
EndOrder(t, tk, outcome, failedCall) ==
    LET st == Classify(tk.stats, outcome)
    IN /\ task' = [task EXCEPT ![t] =
                     [tk EXCEPT !.stats = st, !.outcome = outcome,
                                !.outcomes = Append(@, outcome),
                                !.failed = failedCall,
                                !.clean = @ /\ failedCall = "none",
                                !.emitted = Some(st),
                                !.idx = @ + 1, !.pc = "loop"]]
       /\ SYNC_STATS' = update_sync_stats(SYNC_STATS, st)

\* the event the caller of sync_shop emits on its result
CompletionEvent(result) == IF result = "Ok" THEN "sync-complete" ELSE "sync-error"

\* a batch that gives up at a shop id it does not know
OnMissingShopReturn == "return"

\* a shop id of the batch that the configuration does not hold: log, continue
OnMissingShop == "continue"

\* a batch that stops at the first shop that failed
ContinueBatchOkOnly(result, abort) == result = "Ok" /\ ~abort

\* a batch that never looks at the flag between shops
ContinueBatchAlways(result, abort) == TRUE

\* the check between shops: the for loop goes on unless the flag is set,
\* whatever sync_shop returned
ContinueBatch(result, abort) == ~abort

\* stats that start without the total
InitialStatsNoTotal(shop_id, total, hours) ==
    [shop_id |-> shop_id, total_orders |-> 0,
     synced_orders |-> 0, skipped_orders |-> 0, error_orders |-> 0,
     aborted |-> FALSE, sync_hours |-> hours]

\* the stats sync_shop starts with
InitialStats(shop_id, total, hours) ==
    [shop_id |-> shop_id, total_orders |-> total,
     synced_orders |-> 0, skipped_orders |-> 0, error_orders |-> 0,
     aborted |-> FALSE, sync_hours |-> hours]

\* sync_shop returns `result` to the spawned closure (single) or to
\* sync_multiple_shops, which publishes the stats again and sleeps
SyncShopReturn(t, tk, result, store) ==
    /\ task' = [task EXCEPT ![t] =
                  [tk EXCEPT !.ret = result, !.heldAt = tk.abortAt,
                             !.journal = Append(@, <<CompletionEvent(result), tk.shop>>),
                             !.pc = IF tk.kind = "single" THEN "done" ELSE "batch_check"]]
    /\ SYNC_STATS' = IF tk.kind # "single" /\ result = "Ok"
                     THEN update_sync_stats(store, tk.stats)
                     ELSE store

\* the event the spawned closure of a batch emits on sync_multiple_shops' result
BatchEvent(result) == IF result = "Ok" THEN "multi-sync-complete" ELSE "sync-error"

\* a batch that returns an error when it is aborted
BatchResultErrOnAbort(stopped) == IF stopped THEN "Err" ELSE "Ok"

\* sync_multiple_shops' result: Ok(()) after the last shop, and Ok(()) when
\* the check between shops saw the abort flag
BatchResult(stopped) == "Ok"

\* sync_multiple_shops returns and the spawned closure emits its event
BatchReturn(tk, stopped) ==
    [tk EXCEPT !.pc = "done",
               !.batch_ret = BatchResult(stopped),
               !.batch_event = BatchEvent(BatchResult(stopped))]

sync_multiple_shops(t) ==
    /\ task[t].pc = "sync_multiple_shops"
    /\ ABORT_FLAG' = FALSE
    /\ task' = [u \in Tasks |->
                  IF u = t THEN [ClearHeld(task[u]) EXCEPT !.pc = "next_shop"]
                  ELSE IF Active(u) THEN ClearHeld(task[u])
                  ELSE task[u]]
    /\ UNCHANGED <<SYNC_STATS, customers, orders, runs, configured, failures, SYNCED_ORDERS, reply, pool_count, call, config>>

next_shop(t) ==
    /\ task[t].pc = "next_shop"
    /\ LET tk == task[t]
       IN IF tk.queue = <<>>
          THEN task' = [task EXCEPT ![t] = BatchReturn(tk, FALSE)]
          ELSE LET shop_id == Head(tk.queue)
               IN IF shop_id \notin ConfigShopIds
                  THEN task' = [task EXCEPT ![t] =
                          [tk EXCEPT !.journal = Append(@, <<"log-error", shop_id>>),
                                     !.queue = IF OnMissingShop = "continue"
                                               THEN Tail(tk.queue) ELSE <<>>]]
                  ELSE task' = [task EXCEPT ![t] =
                          [tk EXCEPT !.queue = Tail(tk.queue),
                                     !.shop = shop_id,
                                     !.journal = Append(@, <<"sync_shop", shop_id>>),
                                     !.emitted = None,
                                     !.hours = get_shop_stats(SYNC_STATS, shop_id).sync_hours,
                                     !.ret = "none", !.heldAt = None,
                                     !.invoked = <<>>,
                                     !.outcomes = <<>>,
                                     !.second = PrevClean(shop_id),
                                     !.clean = TRUE,
                                     !.pc = "sync_shop"]]
    /\ UNCHANGED <<ABORT_FLAG, SYNC_STATS, customers, orders, runs, configured, failures, SYNCED_ORDERS, reply, pool_count, call, config>>

batch_check(t) ==
    /\ task[t].pc = "batch_check"
    /\ task' = [task EXCEPT ![t] =
                  IF ContinueBatch(task[t].ret, should_abort)
                  THEN [task[t] EXCEPT !.pc = "next_shop", !.stopped = should_abort]
                  ELSE BatchReturn([task[t] EXCEPT !.stopped = should_abort],
                                   should_abort)]
    /\ UNCHANGED <<ABORT_FLAG, SYNC_STATS, customers, orders, runs, configured, failures, SYNCED_ORDERS, reply, pool_count, call, config>>

\* a sync_shop that publishes its initial stats before it fetches the orders
StoreOnEarlyErrorPublished(store, shop_id, hours) ==
    update_sync_stats(store, InitialStatsNoTotal(shop_id, 0, hours))

\* the store when get_joomla_pool or get_orders_within_timeframe returns
\* Err: `?` leaves sync_shop before its first update_sync_stats
StoreOnEarlyError(store, shop_id, hours) == store

\* sync_shop up to the for loop: pool, order fetch, initial stats
sync_shop(t) ==
    /\ task[t].pc = "sync_shop"
    /\ LET tk == task[t]
           cached == tk.shop \in tk.pools
       IN \E poolOk \in IF cached THEN {TRUE} ELSE Returns :
          \E fetchOk \in IF poolOk THEN Returns ELSE {TRUE} :
             LET ok == poolOk /\ fetchOk
                 got == SourceOrders(tk.shop)
                 st == InitialStats(tk.shop, Len(got), tk.hours)
                 tk1 == [tk EXCEPT !.pools = IF poolOk THEN @ \cup {tk.shop} ELSE @,
                                   !.clean = @ /\ ok]
                 tk2 == [tk1 EXCEPT !.fetched = got, !.idx = 1, !.stats = st,
                                    !.emitted = Some(st), !.pc = "loop"]
             IN /\ Spend(ok)
                /\ pool_count' = IF cached \/ ~poolOk THEN pool_count
                                  ELSE PoolCreated(pool_count, tk.shop)
                /\ IF ~ok THEN SyncShopReturn(t, tk1, "Err",
                                      StoreOnEarlyError(SYNC_STATS, tk.shop, tk.hours))
                   ELSE IF got = <<>>
                        THEN SyncShopReturn(t, tk2, "Ok", update_sync_stats(SYNC_STATS, st))
                        ELSE /\ task' = [task EXCEPT ![t] = tk2]
                             /\ SYNC_STATS' = update_sync_stats(SYNC_STATS, st)
    /\ UNCHANGED <<ABORT_FLAG, customers, orders, runs, configured, SYNCED_ORDERS, reply, call, config>>

\* the head of the for loop: the abort check, then process_order up to its
\* first remote call (get_shipping_address is a database call)
sync_shop_loop(t) ==
    /\ task[t].pc = "loop"
    /\ task[t].idx <= Len(task[t].fetched)
    /\ LET tk == task[t]
       IN IF should_abort
          THEN LET st == [tk.stats EXCEPT !.aborted = TRUE]
               IN /\ SyncShopReturn(t, [tk EXCEPT !.stats = st, !.emitted = Some(st)], "Ok",
                                    update_sync_stats(SYNC_STATS, st))
                  /\ UNCHANGED failures
          ELSE \E shippingOk \in Returns :
                 LET tk1 == [tk EXCEPT
                               !.invoked = Append(@, CurrentOrder(t).virtuemart_order_id),
                               !.trace = <<>>, !.exists = "none", !.failed = "none",
                               !.resolved = 0, !.customer_id = "", !.order_id = 0]
                 IN /\ Spend(shippingOk)
                    /\ IF shippingOk
                       THEN /\ task' = [task EXCEPT ![t] = [tk1 EXCEPT !.pc = "get_customer"]]
                            /\ UNCHANGED SYNC_STATS
                       ELSE EndOrder(t, tk1, "error", "get_shipping_address")
    /\ UNCHANGED <<ABORT_FLAG, customers, orders, runs, configured, SYNCED_ORDERS, reply, pool_count, call, config>>

\* a sync_shop that looks at the abort flag once more after the loop
FinalStatsFlagged(stats, abort) == [stats EXCEPT !.aborted = @ \/ abort]

\* the stats sync_shop publishes and returns after the for loop: as the
\* loop left them, the flag is not read again
FinalStats(stats, abort) == stats

\* the for loop is exhausted: final publication, return
sync_shop_finish(t) ==
    /\ task[t].pc = "loop"
    /\ task[t].idx > Len(task[t].fetched)
    /\ LET st == FinalStats(task[t].stats, should_abort)
       IN SyncShopReturn(t, [task[t] EXCEPT !.stats = st, !.emitted = Some(st)], "Ok",
                         update_sync_stats(SYNC_STATS, st))
    /\ UNCHANGED <<ABORT_FLAG, customers, orders, runs, configured, failures, SYNCED_ORDERS, reply, pool_count, call, config>>

----------------------------------------------------------------------------
(* process_order, one action per remote call *)

Call(tk, name) == [tk EXCEPT !.trace = Append(@, name)]

get_customer_by_id(t) ==
    /\ task[t].pc = "get_customer"
    /\ LET tk == Call(task[t], "get_customer_by_id")
           number == customer_number(CurrentOrder(t))
       IN \E ok \in Returns :
            /\ Spend(ok)
            /\ IF ~ok THEN EndOrder(t, tk, "error", "get_customer_by_id")
               ELSE /\ UNCHANGED SYNC_STATS
                    /\ IF AfterCustomerLookup(CustomersWithNumber(number) # {})
                             = "check_order_exists"
                       THEN LET id == FirstCustomer(number)
                            IN task' = [task EXCEPT ![t] =
                                  [tk EXCEPT !.customer_id = CustomerIdFound(JsonId(IdJsonKind, id)),
                                             !.resolved = id,
                                             !.pc = "check_order_exists"]]
                       ELSE task' = [task EXCEPT ![t] = [tk EXCEPT !.pc = "create_customer"]]
    /\ UNCHANGED <<ABORT_FLAG, customers, orders, runs, configured, SYNCED_ORDERS, reply, pool_count, call, config>>

create_customer(t) ==
    /\ task[t].pc = "create_customer"
    /\ LET tk == Call(task[t], "create_customer")
           number == customer_number(CurrentOrder(t))
           id == Len(customers) + 1
       IN \E ok \in Returns :
            /\ Spend(ok)
            /\ IF ~ok
               THEN /\ EndOrder(t, tk, "error", "create_customer")
                    /\ UNCHANGED customers
               ELSE /\ customers' = Append(customers,
                          [Number |-> number,
                           src |-> <<tk.shop, CurrentOrder(t).virtuemart_order_id>>])
                    /\ task' = [task EXCEPT ![t] =
                          [tk EXCEPT !.customer_id = CustomerIdCreated(JsonId(IdJsonKind, id)),
                                     !.resolved = id,
                                     !.pc = "check_order_exists"]]
                    /\ UNCHANGED SYNC_STATS
    /\ UNCHANGED <<ABORT_FLAG, orders, runs, configured, SYNCED_ORDERS, reply, pool_count, call, config>>

\* check_order_exists, then get_order_items (a database call) when it is absent
check_order_exists(t) ==
    /\ task[t].pc = "check_order_exists"
    /\ LET tk == Call(task[t], "check_order_exists")
           exists == OrderExistsRemotely(order_number(CurrentOrder(t)), tk.customer_id)
       IN \E ok \in Returns :
          \E itemsOk \in IF ok /\ ~exists THEN Returns ELSE {TRUE} :
            /\ Spend(ok /\ itemsOk)
            /\ IF ~ok THEN EndOrder(t, tk, "error", "check_order_exists")
               ELSE LET tk1 == [tk EXCEPT !.exists = IF exists THEN "true" ELSE "false"]
                    IN IF AfterOrderCheck(exists) = "skipped"
                       THEN EndOrder(t, tk1, "skipped", "none")
                       ELSE IF ~itemsOk THEN EndOrder(t, tk1, "error", "get_order_items")
                       ELSE /\ task' = [task EXCEPT ![t] = [tk1 EXCEPT !.pc = "create_order"]]
                            /\ UNCHANGED SYNC_STATS
    /\ UNCHANGED <<ABORT_FLAG, customers, orders, runs, configured, SYNCED_ORDERS, reply, pool_count, call, config>>

\* create_order: POST salesOrders (the order header)
create_order(t) ==
    /\ task[t].pc = "create_order"
    /\ LET tk == Call(task[t], "create_order")
           order == CurrentOrder(t)
           id == Len(orders) + 1
       IN \E ok \in Returns :
            /\ Spend(ok)
            /\ IF ~ok
               THEN /\ EndOrder(t, tk, "error", "create_order")
                    /\ UNCHANGED orders
               ELSE /\ orders' = Append(orders,
                          [ExternalNumber |-> order_number(order),
                           CustomerId |-> parse_i32_or_default(tk.customer_id),
                           items |-> FALSE, paid |-> FALSE, hold |-> FALSE,
                           src |-> <<tk.shop, order.virtuemart_order_id>>])
                    /\ task' = [task EXCEPT ![t] =
                          [tk EXCEPT !.order_id = as_i64(JsonId(IdJsonKind, id))[1],
                                     !.pc = "add_order_items"]]
                    /\ UNCHANGED SYNC_STATS
    /\ UNCHANGED <<ABORT_FLAG, customers, runs, configured, SYNCED_ORDERS, reply, pool_count, call, config>>

\* create_order: POST salesOrders/{id}/lineitems, then create_order returns
add_order_items(t) ==
    /\ task[t].pc = "add_order_items"
    /\ LET tk == Call(task[t], "add_order_items")
       IN \E ok \in Returns :
            /\ Spend(ok)
            /\ orders' = IF ok THEN [orders EXCEPT ![tk.order_id].items = TRUE] ELSE orders
            /\ IF CreateOrderResult(ok) = "Err"
               THEN EndOrder(t, tk, "error", "add_order_items")
               ELSE /\ task' = [task EXCEPT ![t] =
                          [tk EXCEPT !.failed = IF ok THEN "none" ELSE "add_order_items",
                                     !.pc = IF IsPaid(CurrentOrder(t))
                                            THEN "set_payment_paid" ELSE "set_order_hold"]]
                    /\ UNCHANGED SYNC_STATS
    /\ UNCHANGED <<ABORT_FLAG, customers, runs, configured, SYNCED_ORDERS, reply, pool_count, call, config>>

set_payment_paid(t) ==
    /\ task[t].pc = "set_payment_paid"
    /\ LET tk == Call(task[t], "set_payment_paid")
       IN \E ok \in Returns :
            /\ Spend(ok)
            /\ orders' = IF ok THEN [orders EXCEPT ![tk.order_id].paid = TRUE] ELSE orders
            /\ task' = [task EXCEPT ![t] =
                  [tk EXCEPT !.clean = @ /\ ok, !.pc = AfterMarkPaid(ok)]]
    /\ UNCHANGED <<ABORT_FLAG, SYNC_STATS, customers, runs, configured, SYNCED_ORDERS, reply, pool_count, call, config>>

set_order_hold(t) ==
    /\ task[t].pc = "set_order_hold"
    /\ LET tk == Call(task[t], "set_order_hold")
       IN \E ok \in Returns :
            /\ Spend(ok)
            /\ orders' = IF ok THEN [orders EXCEPT ![tk.order_id].hold = TRUE] ELSE orders
            /\ EndOrder(t, [tk EXCEPT !.clean = @ /\ ok], AfterOrderHold(ok), tk.failed)
    /\ UNCHANGED <<ABORT_FLAG, customers, runs, configured, SYNCED_ORDERS, reply, pool_count, call, config>>

----------------------------------------------------------------------------
(* The specifications *)

Init ==
    /\ ABORT_FLAG = FALSE
    /\ SYNC_STATS = <<>>
    /\ customers = <<>>
    /\ orders = <<>>
    /\ task = [t \in Tasks |-> IdleTask]
    /\ runs = 0
    /\ failures = 0
    /\ configured = <<>>
    /\ SYNCED_ORDERS = <<>>
    /\ reply = NoReply
    /\ pool_count = <<>>
    /\ config = LoadedConfig
    /\ call = None

\* a step of a background task
TaskStep ==
    \/ \E t \in Tasks : sync_multiple_shops(t)
    \/ \E t \in Tasks : next_shop(t)
    \/ \E t \in Tasks : batch_check(t)
    \/ \E t \in Tasks : sync_shop(t)
    \/ \E t \in Tasks : sync_shop_loop(t)
    \/ \E t \in Tasks : sync_shop_finish(t)
    \/ \E t \in Tasks : get_customer_by_id(t)
    \/ \E t \in Tasks : create_customer(t)
    \/ \E t \in Tasks : check_order_exists(t)
    \/ \E t \in Tasks : create_order(t)
    \/ \E t \in Tasks : add_order_items(t)
    \/ \E t \in Tasks : set_payment_paid(t)
    \/ \E t \in Tasks : set_order_hold(t)

\* Runs one after the other: a start command is given only when no run is
\* active, MaxRuns times.  Environment calls may fail.
Next ==
    \/ \E shop_id \in ShopIdInputs, hours \in HoursInputs :
          start_sync_command({1}, MaxRuns, shop_id, hours)
    \/ \E shop_ids \in ManualListInputs :
          start_multi_sync_command({1}, MaxRuns, shop_ids)
    \/ \E shop_ids \in ScheduledListInputs :
          start_scheduled_sync({1}, MaxRuns, shop_ids)
    \/ abort_sync_command
    \/ TaskStep

Spec == Init /\ [][Next]_vars

\* Runs that overlap: a start command is given at any time, while another
\* run is active, once per task slot.  The environment calls all return.
InitConcurrent ==
    /\ ABORT_FLAG = FALSE
    /\ SYNC_STATS = <<>>
    /\ customers = <<>>
    /\ orders = <<>>
    /\ task = [t \in Tasks |-> IdleTask]
    /\ runs = 0
    /\ failures = MaxFailures
    /\ configured = <<>>
    /\ SYNCED_ORDERS = <<>>
    /\ reply = NoReply
    /\ pool_count = <<>>
    /\ config = LoadedConfig
    /\ call = None

NextConcurrent ==
    \/ \E shop_id \in ShopIdInputs, hours \in HoursInputs :
          start_sync_command(Tasks, Cardinality(Tasks), shop_id, hours)
    \/ \E shop_ids \in OverlapListInputs :
          start_multi_sync_command(Tasks, Cardinality(Tasks), shop_ids)
    \/ \E shop_ids \in OverlapListInputs :
          start_scheduled_sync(Tasks, Cardinality(Tasks), shop_ids)
    \/ abort_sync_command
    \/ TaskStep

SpecConcurrent == InitConcurrent /\ [][NextConcurrent]_vars

\* One batch over two shops whose Joomla ids overlap; the environment calls
\* all return.
NextShops ==
    \/ \E shop_ids \in TwoShopListInputs :
          start_multi_sync_command({1}, MaxRuns, shop_ids)
    \/ abort_sync_command
    \/ TaskStep

SpecShops == InitConcurrent /\ [][NextShops]_vars

\* the steps of a task spawned by start_sync_command
SingleTaskStep ==
    \/ \E t \in Tasks : sync_shop(t)
    \/ \E t \in Tasks : sync_shop_loop(t)
    \/ \E t \in Tasks : sync_shop_finish(t)
    \/ \E t \in Tasks : get_customer_by_id(t)
    \/ \E t \in Tasks : create_customer(t)
    \/ \E t \in Tasks : check_order_exists(t)
    \/ \E t \in Tasks : create_order(t)
    \/ \E t \in Tasks : add_order_items(t)
    \/ \E t \in Tasks : set_payment_paid(t)
    \/ \E t \in Tasks : set_order_hold(t)

\* Overlapping single-shop runs on shop "a", with the stats store
\* configured and reset at any time; the environment calls all return.
NextStats ==
    \/ start_sync_command(Tasks, Cardinality(Tasks), Some("a"), None)
    \/ \E shop_id \in ResetShopInputs, hours \in SetHoursInputs :
          set_sync_hours(shop_id, hours)
    \/ \E shop_id \in ResetShopInputs : reset_shop_stats(shop_id)
    \/ reset_all_stats
    \/ SingleTaskStep

SpecStats == InitConcurrent /\ [][NextStats]_vars

\* One batch that visits shop "a" twice, with the lookback hours
\* configured at any time; the environment calls all return.
NextHours ==
    \/ \E shop_ids \in {<<"a", "x", "a">>} :
          start_multi_sync_command({1}, MaxRuns, shop_ids)
    \/ \E shop_id \in SetHoursShopInputs, hours \in SetHoursInputs :
          set_sync_hours(shop_id, hours)
    \/ abort_sync_command
    \/ TaskStep

SpecHours == InitConcurrent /\ [][NextHours]_vars

\* The scheduler's timer fires again after a run has finished: a shop is
\* synchronised by one run and then by a later one.  Environment calls
\* may fail.
RetryRuns == MaxRuns + 1
RetryListInputs == {<<"a">>, <<"c">>}

NextRetry ==
    \/ \E shop_ids \in RetryListInputs :
          start_scheduled_sync({1}, RetryRuns, shop_ids)
    \/ TaskStep

SpecRetry == Init /\ [][NextRetry]_vars

\* Batches only, each task step eventually taken: every database and
\* remote call returns, with a result or with an error.
BatchListInputs == {<<"x", "b">>}
BatchScheduledInputs == {<<"b", "a">>}

NextBatch ==
    \/ \E shop_ids \in BatchListInputs :
          start_multi_sync_command({1}, MaxRuns, shop_ids)
    \/ \E shop_ids \in BatchScheduledInputs :
          start_scheduled_sync({1}, MaxRuns, shop_ids)
    \/ abort_sync_command
    \/ TaskStep

SpecBatch == Init /\ [][NextBatch]_vars /\ WF_vars(TaskStep)

\* Single-shop runs with any hours argument, a scheduled batch, and
\* set_sync_hours with any hours at any time; the environment calls all
\* return.
RangeHoursInputs == {None, Some(0 - 1), Some(0), Some(12)}
RangeSetHoursInputs == {0 - 1, 0, 48}

NextRange ==
    \/ \E hours \in RangeHoursInputs :
          start_sync_command({1}, MaxRuns, Some("a"), hours)
    \/ \E shop_ids \in BatchScheduledInputs :
          start_scheduled_sync({1}, MaxRuns, shop_ids)
    \/ \E shop_id \in SetHoursShopInputs, hours \in RangeSetHoursInputs :
          set_sync_hours(shop_id, hours)
    \/ TaskStep

SpecRange == InitConcurrent /\ [][NextRange]_vars

\* Single-shop runs of shop "a" and of shop "e", which has no order in
\* the window, with the abort command given at any time.  Environment
\* calls may fail.
AbortShopInputs == {Some("a"), Some("e")}

NextAbort ==
    \/ \E shop_id \in AbortShopInputs :
          start_sync_command({1}, MaxRuns, shop_id, None)
    \/ abort_sync_command
    \/ SingleTaskStep

SpecAbort == Init /\ [][NextAbort]_vars

----------------------------------------------------------------------------
(* The pure functions, applied to inputs drawn from bounded sets *)

\* the state of the program's variables while a pure function is applied
Quiescent ==
    /\ ABORT_FLAG = FALSE
    /\ SYNC_STATS = <<>>
    /\ customers = <<>>
    /\ orders = <<>>
    /\ task = [t \in Tasks |-> IdleTask]
    /\ runs = 0
    /\ failures = 0
    /\ configured = <<>>
    /\ SYNCED_ORDERS = <<>>
    /\ reply = NoReply
    /\ pool_count = <<>>
    /\ config = LoadedConfig

\* the function returns: call holds its result
Return(result) ==
    /\ call.result = None
    /\ call' = [call EXCEPT !.result = Some(result)]
    /\ UNCHANGED <<ABORT_FLAG, SYNC_STATS, customers, orders, task, runs, failures,
                   configured, SYNCED_ORDERS, reply, pool_count, config>>

\* get_order_items: rows of VirtueMartOrderItem
VirtueMartOrderItem(name, quantity, price, net) ==
    [order_item_name |-> name, product_quantity |-> quantity,
     product_final_price |-> price, product_priceWithoutTax |-> net]

ItemInputs == {VirtueMartOrderItem("A", 2, 1190, Some(1000)),
               VirtueMartOrderItem("B", 1, 595, None)}
ItemListInputs == UNION {[1..n -> ItemInputs] : n \in 0..MaxItems}
CouponCodeInputs == {None, Some(""), Some("X")}
CouponDiscountInputs == {None, Some(500)}
ShipmentInputs == {None, Some(0), Some(0 - 300), Some(490)}

InitLines ==
    /\ Quiescent
    /\ \E items \in ItemListInputs, code \in CouponCodeInputs,
          discount \in CouponDiscountInputs, shipment \in ShipmentInputs :
          call = [fn |-> "all_items",
                  args |-> [items |-> items, shop_name |-> "a",
                            order |-> [coupon_code |-> code,
                                       coupon_discount |-> discount,
                                       order_shipment |-> shipment]],
                  result |-> None]

process_order_lines ==
    /\ call.fn = "all_items"
    /\ Return(all_items(call.args.items, call.args.shop_name, call.args.order))

NextLines == process_order_lines

SpecLines == InitLines /\ [][NextLines]_vars

PaymentIdInputs == {None} \cup {Some(id) : id \in (0 - 1)..MaxPaymentId}

InitMapping ==
    /\ Quiescent
    /\ \E id \in PaymentIdInputs :
          call = [fn |-> "map_payment_method", args |-> id, result |-> None]

apply_map_payment_method ==
    /\ call.fn = "map_payment_method"
    /\ Return(map_payment_method(call.args))

NextMapping == apply_map_payment_method

SpecMapping == InitMapping /\ [][NextMapping]_vars

\* records a finished run can have left in the store
StatsInputs(shop_id) ==
    {[shop_id |-> shop_id, total_orders |-> 2, synced_orders |-> 1,
      skipped_orders |-> 0, error_orders |-> 1, aborted |-> FALSE,
      sync_hours |-> DEFAULT_SYNC_HOURS],
     [shop_id |-> shop_id, total_orders |-> 2, synced_orders |-> 0,
      skipped_orders |-> 1, error_orders |-> 0, aborted |-> TRUE,
      sync_hours |-> 12]}

\* stores with entries for some of the shops a and b
StoreInputs ==
    UNION {[ks -> UNION {StatsInputs(k) : k \in ks}] : ks \in SUBSET {"a", "b"}}

StoreShopInputs == {"a", "b", "x"}
StoreHoursInputs == {0 - 1, 0, 1, 48}

InitSyncHours ==
    /\ ABORT_FLAG = FALSE
    /\ customers = <<>>
    /\ orders = <<>>
    /\ task = [t \in Tasks |-> IdleTask]
    /\ runs = 0
    /\ failures = 0
    /\ configured = <<>>
    /\ SYNCED_ORDERS = <<>>
    /\ reply = NoReply
    /\ pool_count = <<>>
    /\ config = LoadedConfig
    /\ \E store \in StoreInputs, shop_id \in StoreShopInputs, hours \in StoreHoursInputs :
          /\ \A k \in DOMAIN store : store[k].shop_id = k
          /\ SYNC_STATS = store
          /\ call = [fn |-> "update_shop_sync_hours",
                     args |-> [store |-> store, shop_id |-> shop_id, hours |-> hours],
                     result |-> None]

apply_update_shop_sync_hours ==
    /\ call.fn = "update_shop_sync_hours"
    /\ call.result = None
    /\ LET result == update_shop_sync_hours_result(call.args.hours)
       IN /\ call' = [call EXCEPT !.result = Some(result)]
          /\ SYNC_STATS' = IF result = "Err" THEN SYNC_STATS
                           ELSE update_shop_sync_hours(SYNC_STATS, call.args.shop_id,
                                                       call.args.hours)
    /\ UNCHANGED <<ABORT_FLAG, customers, orders, task, runs, failures,
                   configured, SYNCED_ORDERS, reply, pool_count, config>>

NextSyncHours == apply_update_shop_sync_hours

SpecSyncHours == InitSyncHours /\ [][NextSyncHours]_vars

\* The configuration functions, applied in any order to a valid
\* configuration; save_config may fail.
ConfigIdInputs == {"a", "b", "c"}
ConfigNameInputs == {"n0", "n1"}
ConfigShopInputs == {ShopConfig(id, name) : id \in ConfigIdInputs, name \in ConfigNameInputs}

\* the ids of the shops, in order
ShopIds(cfg) == [i \in DOMAIN cfg.shops |-> cfg.shops[i].id]

\* shop ids pairwise distinct, at least one shop, the index inside the list
ValidConfig(cfg) ==
    /\ \A i, j \in DOMAIN cfg.shops : cfg.shops[i].id = cfg.shops[j].id => i = j
    /\ cfg.shops # <<>>
    /\ cfg.current_shop_index < Len(cfg.shops)

ConfigInputs ==
    {cfg \in [shops : UNION {[1..n -> {ShopConfig(id, "n0") : id \in ConfigIdInputs}] :
                                n \in 1..Cardinality(ConfigIdInputs)},
              current_shop_index : 0..(Cardinality(ConfigIdInputs) - 1)] :
        ValidConfig(cfg)}

InitConfig ==
    /\ ABORT_FLAG = FALSE
    /\ SYNC_STATS = <<>>
    /\ customers = <<>>
    /\ orders = <<>>
    /\ task = [t \in Tasks |-> IdleTask]
    /\ runs = 0
    /\ failures = 0
    /\ configured = <<>>
    /\ SYNCED_ORDERS = <<>>
    /\ reply = NoReply
    /\ pool_count = <<>>
    /\ call = None
    /\ config \in ConfigInputs

\* call after a configuration function was applied: its arguments and its result
Applying(fn, args, result) == [fn |-> fn, args |-> args, result |-> Some(result)]

apply_add_shop ==
    \E shop \in ConfigShopInputs, saved \in BOOLEAN :
        LET outcome == add_shop(config, shop, saved)
        IN /\ config' = outcome.config
           /\ call' = Applying("add_shop", shop, outcome.result)
           /\ UNCHANGED <<ABORT_FLAG, SYNC_STATS, customers, orders, task, runs, failures,
                          configured, SYNCED_ORDERS, reply, pool_count>>

apply_update_shop ==
    \E shop \in ConfigShopInputs, saved \in BOOLEAN :
        LET outcome == update_shop(config, shop, saved)
        IN /\ config' = outcome.config
           /\ call' = Applying("update_shop", shop, outcome.result)
           /\ UNCHANGED <<ABORT_FLAG, SYNC_STATS, customers, orders, task, runs, failures,
                          configured, SYNCED_ORDERS, reply, pool_count>>

apply_remove_shop ==
    \E shop_id \in ConfigIdInputs, saved \in BOOLEAN :
        LET outcome == remove_shop(config, shop_id, saved)
        IN /\ config' = outcome.config
           /\ call' = Applying("remove_shop", shop_id, outcome.result)
           /\ UNCHANGED <<ABORT_FLAG, SYNC_STATS, customers, orders, task, runs, failures,
                          configured, SYNCED_ORDERS, reply, pool_count>>

apply_set_current_shop ==
    \E shop_id \in ConfigIdInputs, saved \in BOOLEAN :
        LET outcome == set_current_shop(config, shop_id, saved)
        IN /\ config' = outcome.config
           /\ call' = Applying("set_current_shop", shop_id, outcome.result)
           /\ UNCHANGED <<ABORT_FLAG, SYNC_STATS, customers, orders, task, runs, failures,
                          configured, SYNCED_ORDERS, reply, pool_count>>

NextConfig ==
    \/ apply_add_shop
    \/ apply_update_shop
    \/ apply_remove_shop
    \/ apply_set_current_shop

SpecConfig == InitConfig /\ [][NextConfig]_vars

----------------------------------------------------------------------------
(* Properties *)

CreationCalls == {"create_order", "add_order_items", "set_payment_paid", "set_order_hold"}

\* sync_shop has returned to its caller and the caller has not moved on
Returned(t) == task[t].pc \in {"done", "batch_check"} /\ task[t].ret # "none"

\* the step ends the process_order invocation of task t
OrderEnds(t) ==
    /\ task[t].pc \in ProcessPcs \cup {"loop"}
    /\ task'[t].pc = "loop"
    /\ task'[t].idx = task[t].idx + 1

\* C1: no source order (shop, virtuemart_order_id) ever has more than one
\* remote sales order, whatever runs interleave.
C1_NoDuplicateRemoteOrder ==
    \A i, j \in DOMAIN orders : orders[i].src = orders[j].src => i = j

\* C2: when check_order_exists answers true, process_order returns
\* Ok(false) and has issued no create_order, add_order_items,
\* set_payment_paid or set_order_hold call for that order.
C2_ExistingOrderSkipped ==
    \A t \in Tasks :
        task[t].exists = "true" =>
            /\ task[t].outcome = "skipped"
            /\ task[t].pc \notin ProcessPcs
            /\ \A i \in DOMAIN task[t].trace : task[t].trace[i] \notin CreationCalls

C2_Witness ==
    \E t \in Tasks :
        /\ task[t].exists = "true"
        /\ task[t].outcome = "skipped"
        /\ task[t].stats.skipped_orders = 1

\* C3: a sync_shop that follows a complete, error-free sync_shop of the same
\* shop, with no other run in between and no failing call, ends with
\* synced_orders = 0 and skipped_orders = total_orders.
C3_SecondRunSkipsAll ==
    \A t \in Tasks :
        (/\ Returned(t)
         /\ task[t].ret = "Ok"
         /\ task[t].second
         /\ task[t].solo
         /\ task[t].clean
         /\ ~task[t].stats.aborted)
        => /\ task[t].stats.synced_orders = 0
           /\ task[t].stats.skipped_orders = task[t].stats.total_orders

\* C4: in every stats snapshot of a run, and in every snapshot published to
\* the store, synced + skipped + error <= total_orders; while the loop runs
\* the sum is the number of orders processed; when sync_shop returns Ok
\* without abort the sum equals total_orders.
C4_CountersWithinTotal ==
    /\ \A k \in DOMAIN SYNC_STATS :
          Counted(SYNC_STATS[k]) <= SYNC_STATS[k].total_orders
    /\ \A t \in Tasks :
          /\ Counted(task[t].stats) <= task[t].stats.total_orders
          /\ InSyncShop(t) =>
                /\ Counted(task[t].stats) = task[t].idx - 1
                /\ task[t].stats.total_orders = Len(task[t].fetched)
          /\ (Returned(t) /\ task[t].ret = "Ok" /\ ~task[t].stats.aborted) =>
                /\ Counted(task[t].stats) = task[t].stats.total_orders
                /\ SYNC_STATS[task[t].shop] = task[t].stats

C4_Witness ==
    \E t \in Tasks :
        /\ Returned(t)
        /\ task[t].ret = "Ok"
        /\ ~task[t].stats.aborted
        /\ task[t].stats.total_orders = MaxOrders
        /\ task[t].stats.synced_orders >= 1
        /\ task[t].stats.error_orders >= 1

\* C5: if the abort flag is set when k of the n fetched orders have been
\* begun (k < n) and stays set, sync_shop returns with aborted = true and
\* synced + skipped + error = k, and process_order was invoked for the first
\* k orders only.
C5_AbortStopsAtLoopHead ==
    \A t \in Tasks :
        (/\ Returned(t)
         /\ task[t].ret = "Ok"
         /\ task[t].heldAt # None
         /\ task[t].heldAt[1] < Len(task[t].fetched))
        => /\ task[t].stats.aborted
           /\ Counted(task[t].stats) = task[t].heldAt[1]
           /\ Len(task[t].invoked) = task[t].heldAt[1]
           /\ \A i \in DOMAIN task[t].invoked :
                 task[t].invoked[i] = task[t].fetched[i].virtuemart_order_id

C5_Witness ==
    \E t \in Tasks :
        /\ Returned(t)
        /\ task[t].heldAt = Some(1)
        /\ Len(task[t].fetched) = MaxOrders
        /\ task[t].stats.aborted
        /\ Counted(task[t].stats) = 1

\* C6: once abort_sync_command has run while a run is active, that run
\* invokes process_order for no further order, whatever other commands and
\* tasks interleave.
C6_AbortHonoured ==
    [][\A t \in Tasks :
          (task[t].abortReq /\ Active(t) /\ task'[t].abortReq)
          => Len(task'[t].invoked) # Len(task[t].invoked) + 1]_vars

\* C7: at no time are two runs inside sync_shop for the same shop id.
C7_RunsSerializedPerShop ==
    \A t, u \in Tasks :
        (t # u /\ InSyncShop(t) /\ InSyncShop(u)) => task[t].shop # task[u].shop

\* C8: the customer id process_order passes to check_order_exists and sends
\* as CustomerId is the id JTL holds for the customer, whether the customer
\* was found by the lookup or just created.
C8_CustomerIdIsRemoteId ==
    \A t \in Tasks :
        task[t].pc \in {"check_order_exists", "create_order"} =>
            /\ task[t].customer_id = ToString(task[t].resolved)
            /\ parse_i32_or_default(task[t].customer_id) = task[t].resolved

\* C9: when add_order_items fails after the order header was created,
\* create_order returns Err: the order is counted in error_orders, not in
\* synced_orders, and neither set_payment_paid nor set_order_hold is called.
C9_AttachFailureIsError ==
    [][\A t \in Tasks :
          (task[t].pc = "add_order_items" /\ task'[t].failed = "add_order_items")
          => /\ OrderEnds(t)
             /\ task'[t].outcome = "error"
             /\ task'[t].stats.error_orders = task[t].stats.error_orders + 1
             /\ task'[t].stats.synced_orders = task[t].stats.synced_orders
             /\ SYNC_STATS'[task[t].shop] = task'[t].stats]_vars

C9_Witness ==
    \E t \in Tasks :
        /\ task[t].failed = "add_order_items"
        /\ task[t].outcome = "error"
        /\ task[t].order_id \in DOMAIN orders
        /\ ~orders[task[t].order_id].items
        /\ task[t].stats.error_orders = 1
        /\ task[t].stats.synced_orders = 0

Called(t, name) == \E i \in DOMAIN task[t].trace : task[t].trace[i] = name

\* C11: once create_order has succeeded (header and items), process_order
\* returns Ok(true) whatever set_payment_paid and set_order_hold return,
\* and set_order_hold is called even when set_payment_paid failed.
C11_BestEffortNeverEscalates ==
    \A t \in Tasks :
        (Called(t, "add_order_items") /\ task[t].failed = "none") =>
            \/ task[t].pc \in {"set_payment_paid", "set_order_hold"}
            \/ /\ task[t].pc \notin ProcessPcs
               /\ task[t].outcome = "synced"
               /\ task[t].trace[Len(task[t].trace)] = "set_order_hold"

C11_Witness ==
    \E t \in Tasks :
        /\ task[t].outcome = "synced"
        /\ task[t].pc \notin ProcessPcs
        /\ Called(t, "set_payment_paid")
        /\ Called(t, "set_order_hold")
        /\ ~orders[task[t].order_id].paid
        /\ orders[task[t].order_id].hold

IsBatch(t) == task[t].kind \in {"multi", "scheduled"}

IsPrefix(p, q) == Len(p) <= Len(q) /\ \A i \in DOMAIN p : p[i] = q[i]

\* the shop ids of the journal entries named `name`, in order
JournalIds(t, name) ==
    LET picked == SelectSeq(task[t].journal, LAMBDA e : e[1] = name)
    IN [i \in DOMAIN picked |-> picked[i][2]]

RequestedConfigured(t) == SelectSeq(task[t].requested, LAMBDA id : id \in ConfigShopIds)
RequestedMissing(t) == SelectSeq(task[t].requested, LAMBDA id : id \notin ConfigShopIds)

\* the batch has returned without having seen the abort flag between shops
BatchCompleted(t) == IsBatch(t) /\ task[t].pc = "done" /\ ~task[t].stopped

\* C12: when sync_shop fails for a shop of a batch, a sync-error event and
\* no sync-complete event is emitted for that call; unless the abort flag
\* is seen between shops, sync_shop is then invoked for every remaining
\* configured shop id, and the batch returns Ok.
C12_ShopFailureDoesNotStopBatch ==
    \A t \in Tasks :
        IsBatch(t) =>
            LET j == task[t].journal
            IN /\ (task[t].pc = "batch_check" /\ task[t].ret = "Err") =>
                     j[Len(j)] = <<"sync-error", task[t].shop>>
               /\ \A i \in DOMAIN j :
                     j[i][1] \in {"sync-error", "sync-complete"} =>
                        i > 1 /\ j[i - 1] = <<"sync_shop", j[i][2]>>
               /\ BatchCompleted(t) =>
                     /\ Len(JournalIds(t, "sync_shop")) = Len(RequestedConfigured(t))
                     /\ Len(JournalIds(t, "sync-error")) + Len(JournalIds(t, "sync-complete"))
                           = Len(RequestedConfigured(t))
                     /\ task[t].batch_ret = "Ok"

C12_Witness ==
    \E t \in Tasks :
        /\ BatchCompleted(t)
        /\ \E i \in DOMAIN task[t].journal :
              /\ task[t].journal[i][1] = "sync-error"
              /\ i < Len(task[t].journal)
              /\ task[t].journal[i + 1][1] = "sync_shop"

\* C13: a requested shop id that the configuration does not hold gets an
\* error log entry and is skipped; sync_shop is invoked for the configured
\* requested ids in the given order, for all of them unless the abort flag
\* is seen between shops, and the batch returns Ok.
C13_MissingShopIsSkipped ==
    \A t \in Tasks :
        IsBatch(t) =>
            /\ IsPrefix(JournalIds(t, "sync_shop"), RequestedConfigured(t))
            /\ IsPrefix(JournalIds(t, "log-error"), RequestedMissing(t))
            /\ BatchCompleted(t) =>
                  /\ JournalIds(t, "sync_shop") = RequestedConfigured(t)
                  /\ JournalIds(t, "log-error") = RequestedMissing(t)
                  /\ task[t].batch_ret = "Ok"

C13_Witness ==
    \E t \in Tasks :
        /\ BatchCompleted(t)
        /\ task[t].requested = <<"a", "x", "a">>
        /\ JournalIds(t, "log-error") = <<"x">>
        /\ JournalIds(t, "sync_shop") = <<"a", "a">>

\* C16: when the check after a shop sees the abort flag, the batch returns
\* Ok at once and invokes sync_shop for no later shop id; and while the
\* flag stays set, process_order is invoked for no order of a later shop.
C16_AbortStopsBatch ==
    \A t \in Tasks :
        IsBatch(t) =>
            /\ task[t].stopped =>
                  /\ task[t].pc = "done"
                  /\ task[t].batch_ret = "Ok"
                  /\ task[t].journal[Len(task[t].journal)][1] \in {"sync-complete", "sync-error"}
            /\ (task[t].heldShop # None /\ Visits(task[t]) > task[t].heldShop[1]) =>
                  /\ task[t].invoked = <<>>
                  /\ Visits(task[t]) = task[t].heldShop[1] + 1

C16_Witness ==
    \E t \in Tasks :
        /\ IsBatch(t)
        /\ task[t].stopped
        /\ task[t].batch_ret = "Ok"
        /\ \E i \in DOMAIN task[t].queue : task[t].queue[i] \in ConfigShopIds

\* the snapshot sync_shop publishes before its loop
FirstSnapshot(t) ==
    [shop_id |-> task[t].shop, total_orders |-> Len(task[t].fetched),
     synced_orders |-> 0, skipped_orders |-> 0, error_orders |-> 0,
     aborted |-> FALSE, sync_hours |-> task[t].hours]

\* C17: in a sync_shop whose fetch succeeded, before process_order is
\* invoked for any order, the stats store holds and the last
\* sync-stats-update event carries a snapshot with total_orders = number of
\* fetched orders, the three counters 0 and aborted = false.
C17_TotalPublishedFirst ==
    \A t \in Tasks :
        /\ (task[t].pc = "loop" /\ task[t].idx = 1) =>
              /\ task[t].invoked = <<>>
              /\ task[t].stats = FirstSnapshot(t)
              /\ SYNC_STATS[task[t].shop] = FirstSnapshot(t)
              /\ task[t].emitted = Some(FirstSnapshot(t))
        /\ (Returned(t) /\ task[t].ret = "Ok" /\ task[t].fetched = <<>>) =>
              /\ SYNC_STATS[task[t].shop] = FirstSnapshot(t)
              /\ task[t].emitted = Some(FirstSnapshot(t))
        /\ (InSyncShop(t) /\ task[t].invoked # <<>>) =>
              task[t].stats.total_orders = Len(task[t].fetched)

C17_Witness ==
    \E t \in Tasks :
        /\ task[t].pc = "loop"
        /\ task[t].idx = 1
        /\ task[t].second
        /\ SYNC_STATS[task[t].shop].total_orders = MaxOrders
        /\ task[t].emitted # None

\* C18: within one sync_shop, process_order is invoked on the fetched
\* orders in fetch order, at most once per order, and an order is begun
\* only when the outcome of the one before it has been counted and the
\* snapshot with it published.
C18_OrdersInFetchOrder ==
    \A t \in Tasks :
        InSyncShop(t) =>
            LET inv == task[t].invoked
            IN /\ Len(inv) <= Len(task[t].fetched)
               /\ \A i \in DOMAIN inv : inv[i] = task[t].fetched[i].virtuemart_order_id
               /\ \A i, k \in DOMAIN inv : inv[i] = inv[k] => i = k
               /\ Len(inv) = IF task[t].pc = "loop" THEN task[t].idx - 1 ELSE task[t].idx
               /\ task[t].pc \in ProcessPcs =>
                     /\ Counted(task[t].stats) = Len(inv) - 1
                     /\ SYNC_STATS[task[t].shop] = task[t].stats
                     /\ task[t].emitted = Some(task[t].stats)

C18_Witness ==
    \E t \in Tasks :
        /\ task[t].pc \in ProcessPcs
        /\ Len(task[t].invoked) = MaxOrders
        /\ task[t].invoked[1] = MaxOrders
        /\ task[t].invoked[MaxOrders] = 1
        /\ Counted(task[t].stats) = MaxOrders - 1

\* the order the current (or last) process_order invocation is about
LastInvoked(t) == task[t].invoked[Len(task[t].invoked)]

\* the lookup of the current invocation found the customer
FoundByLookup(t) ==
    /\ Called(t, "get_customer_by_id")
    /\ ~Called(t, "create_customer")
    /\ task[t].resolved # 0

\* C14: order numbers and customer numbers are unique between shops: an
\* order is classified as existing only because of a remote order created
\* from that same shop's order, a customer found by lookup was created from
\* an order of the same shop, and remote orders created from orders of
\* different shops have different external numbers.
C14_NumbersUniqueBetweenShops ==
    /\ \A t \in Tasks :
          /\ task[t].exists = "true" =>
                \E i \in DOMAIN orders : orders[i].src = <<task[t].shop, LastInvoked(t)>>
          /\ FoundByLookup(t) => customers[task[t].resolved].src[1] = task[t].shop
    /\ \A i, j \in DOMAIN orders :
          orders[i].src[1] # orders[j].src[1] =>
              orders[i].ExternalNumber # orders[j].ExternalNumber

\* C15: two fetched orders without a back-reference id
\* (virtuemart_order_userinfo_id absent) and with different order ids get
\* different customer numbers.
C15_CustomerNumberFallsBackToOrderId ==
    \A t \in Tasks :
        \A i, j \in DOMAIN task[t].fetched :
            LET o1 == task[t].fetched[i]
                o2 == task[t].fetched[j]
            IN (/\ o1.virtuemart_order_userinfo_id = None
                /\ o2.virtuemart_order_userinfo_id = None
                /\ o1.virtuemart_order_id # o2.virtuemart_order_id)
               => customer_number(o1) # customer_number(o2)

\* the shop ids a reader asks for
ReaderInputs == {None, Some("a"), Some("b"), Some("x")}

\* C19: every snapshot get_sync_stats / get_shop_stats can return, at any
\* time and under any interleaving with running syncs, set_sync_hours,
\* reset_shop_stats and reset_all_stats, has
\* synced_orders + skipped_orders + error_orders <= total_orders.
C19_ReadersSeeConsistentStats ==
    \A shop_id \in ReaderInputs :
        \A snapshot \in get_sync_stats(SYNC_STATS, shop_id) :
            Counted(snapshot) <= snapshot.total_orders

C19_Witness ==
    /\ \E t, u \in Tasks : t # u /\ InSyncShop(t) /\ InSyncShop(u)
    /\ "a" \in DOMAIN SYNC_STATS
    /\ SYNC_STATS["a"].sync_hours = 48
    /\ SYNC_STATS["a"].total_orders = 0
    /\ \E t \in Tasks : InSyncShop(t) /\ Counted(task[t].stats) >= 1

\* C20: the hours sync_multiple_shops passes to sync_shop for a shop are
\* the value most recently configured for that shop (set_sync_hours, or
\* start_sync_command with explicit hours), 24 if none was, also when the
\* configuration call came while a sync of that shop was running.
C20_BatchUsesConfiguredHours ==
    [][\A t \in Tasks :
          (task[t].pc = "next_shop" /\ task'[t].pc = "sync_shop")
          => task'[t].hours = ConfiguredHours(configured, task'[t].shop)]_vars

\* the orders sync_shop has processed so far, as the list is to hold them
Processed(t) ==
    [i \in 1..(task[t].idx - 1) |-> WithShopId(task[t].fetched[i], task[t].shop)]

IsSuffix(p, q) ==
    /\ Len(p) <= Len(q)
    /\ \A i \in DOMAIN p : p[i] = q[Len(q) - Len(p) + i]

\* C21: once sync_shop has processed an order, whatever the outcome,
\* get_synced_orders for that shop returns it: the list ends with the
\* orders processed so far by this sync_shop, in processing order, each
\* tagged with the shop id.
C21_ProcessedOrdersRecorded ==
    \A t \in Tasks :
        (InSyncShop(t) \/ (Returned(t) /\ task[t].ret = "Ok")) =>
            \A list \in get_synced_orders(SYNCED_ORDERS, Some(task[t].shop)) :
                IsSuffix(Processed(t), list)

\* the step spawns a background task in slot t
Spawns(t) == ~Active(t) /\ task'[t].pc \in {"sync_shop", "sync_multiple_shops"}

\* the step is a start command returning an error
Rejects == reply' # reply /\ reply'.result = "Err"

\* C22: every start command given an unknown shop id or non-positive hours
\* returns an error synchronously: no task is spawned for such input, and
\* a command that returns an error leaves the stats store, the abort flag
\* and the tasks as they were.
C22_InvalidStartRejected ==
    [][/\ \A t \in Tasks :
             Spawns(t) =>
                IF task'[t].kind = "single"
                THEN task'[t].shop \in ConfigShopIds /\ task'[t].hours > 0
                ELSE \A i \in DOMAIN task'[t].requested :
                        task'[t].requested[i] \in ConfigShopIds
       /\ Rejects => UNCHANGED <<ABORT_FLAG, SYNC_STATS, task, runs>>]_vars

\* the call has returned
Applied(fn) == call # None /\ call.fn = fn /\ call.result # None

HasCoupon(order) == order.coupon_code # None /\ order.coupon_code[1] # ""
HasShipping(order) == order.order_shipment # None /\ order.order_shipment[1] > 0

\* C23: the line list is one line per source item in source order, then
\* exactly one coupon line iff coupon_code is present and non-empty, then
\* exactly one shipping line iff order_shipment is present and strictly
\* positive; with no items, no coupon and no shipping it is empty.
C23_OrderLines ==
    Applied("all_items") =>
        LET items == call.args.items
            order == call.args.order
            lines == call.result[1]
            n == Len(items)
            c == IF HasCoupon(order) THEN 1 ELSE 0
            sh == IF HasShipping(order) THEN 1 ELSE 0
            CouponLines == {i \in DOMAIN lines : lines[i].TaxRate = 0}
            ShippingLines == {i \in DOMAIN lines : lines[i].Name = "[a] Shipping"}
        IN /\ Len(lines) = n + c + sh
           /\ \A i \in 1..n :
                 /\ lines[i].Name = "[a] " \o items[i].order_item_name
                 /\ lines[i].Quantity = items[i].product_quantity
                 /\ lines[i].SalesPriceGross = Some(items[i].product_final_price)
                 /\ lines[i].TaxRate = 19
           /\ CouponLines = IF HasCoupon(order) THEN {n + 1} ELSE {}
           /\ ShippingLines = IF HasShipping(order) THEN {n + c + 1} ELSE {}
           /\ HasCoupon(order) =>
                 /\ lines[n + 1].Name = "[a] Coupon: " \o order.coupon_code[1]
                 /\ lines[n + 1].Quantity = 1
           /\ HasShipping(order) =>
                 /\ lines[n + c + 1].SalesPriceGross = order.order_shipment
                 /\ lines[n + c + 1].Quantity = 1
           /\ (n = 0 /\ ~HasCoupon(order) /\ ~HasShipping(order)) => lines = <<>>

C23_Witness ==
    /\ Applied("all_items")
    /\ Len(call.args.items) = MaxItems
    /\ call.args.order.coupon_code = Some("X")
    /\ call.args.order.order_shipment = Some(490)
    /\ Len(call.result[1]) = MaxItems + 2

\* C24: map_payment_method returns 20 for an absent id and for every id
\* outside the mapping table, the table's value for every mapped id (5
\* maps to 4), and always returns an id.
C24_PaymentMethodMapping ==
    Applied("map_payment_method") =>
        LET id == call.args
            jtl == call.result[1]
        IN /\ jtl \in Int
           /\ id = None => jtl = 20
           /\ (id # None /\ id[1] \notin {2, 14, 4, 5, 6, 8, 9, 10, 17}) => jtl = 20
           /\ id = Some(2) => jtl = 38
           /\ id = Some(14) => jtl = 4
           /\ id = Some(4) => jtl = 2
           /\ id = Some(5) => jtl = 4
           /\ id = Some(6) => jtl = 39
           /\ id = Some(8) => jtl = 27
           /\ id = Some(9) => jtl = 9
           /\ id = Some(10) => jtl = 34
           /\ id = Some(17) => jtl = 10

C24_Witness ==
    /\ Applied("map_payment_method")
    /\ call.args = Some(5)
    /\ call.result = Some(4)

\* C25: a connection pool is created at most once per shop id, also across
\* separately started runs, and the pool a sync_shop works with is the one
\* cached under its own shop id.
C25_OnePoolPerShop ==
    /\ \A k \in DOMAIN pool_count : pool_count[k] <= 1
    /\ \A t \in Tasks : InSyncShop(t) => task[t].shop \in task[t].pools

\* the order the current (or last) process_order invocation was given
InvokedOrder(t) == task[t].fetched[Len(task[t].invoked)]

\* the remote calls that may directly follow one another for one order
CallSuccession ==
    {<<"get_customer_by_id", "create_customer">>,
     <<"get_customer_by_id", "check_order_exists">>,
     <<"create_customer", "check_order_exists">>,
     <<"check_order_exists", "create_order">>,
     <<"create_order", "add_order_items">>,
     <<"add_order_items", "set_payment_paid">>,
     <<"add_order_items", "set_order_hold">>,
     <<"set_payment_paid", "set_order_hold">>}

EarlyCalls == {"get_customer_by_id", "create_customer", "check_order_exists"}

\* C26: for each order the remote calls come in the order customer lookup,
\* customer create (only when the lookup found no customer), order-exists
\* check, order header create, line-item attach, status transitions; when
\* the lookup, the customer create or the exists check fails, the order
\* ends as an error and no later remote call is issued for it.
C26_RemoteCallOrder ==
    \A t \in Tasks :
        LET tr == task[t].trace
        IN /\ tr # <<>> => tr[1] = "get_customer_by_id"
           /\ \A i \in 1..(Len(tr) - 1) : <<tr[i], tr[i + 1]>> \in CallSuccession
           /\ task[t].pc = "create_customer" =>
                 CustomersWithNumber(customer_number(InvokedOrder(t))) = {}
           /\ (task[t].pc = "check_order_exists" /\ ~Called(t, "create_customer")) =>
                 CustomersWithNumber(customer_number(InvokedOrder(t))) # {}
           /\ task[t].failed \in EarlyCalls =>
                 /\ task[t].pc \notin ProcessPcs
                 /\ task[t].outcome = "error"
                 /\ tr[Len(tr)] = task[t].failed
                 /\ \A i \in DOMAIN tr : tr[i] \in EarlyCalls

C26_Witness ==
    \E t \in Tasks :
        /\ task[t].failed = "check_order_exists"
        /\ task[t].trace = <<"get_customer_by_id", "create_customer", "check_order_exists">>
        /\ task[t].outcome = "error"
        /\ task[t].stats.error_orders = 1

\* the positions of `name` among the remote calls of the invocation
CallsOf(t, name) == {i \in DOMAIN task[t].trace : task[t].trace[i] = name}

\* the source payment methods that map to JTL's method 4
CardMethods == {Some(5), Some(14)}

\* C27: after a successful create_order, set_payment_paid is called iff
\* the order's status is "C" and the mapped payment method is not 4, and
\* set_order_hold is called exactly once in every case, after the
\* mark-paid call when there is one.
C27_StatusTransitions ==
    \A t \in Tasks :
        (/\ task[t].invoked # <<>>
         /\ Called(t, "add_order_items")
         /\ task[t].failed = "none") =>
            LET o == InvokedOrder(t)
                paid == /\ o.order_status = Some("C")
                        /\ o.virtuemart_paymentmethod_id \notin CardMethods
            IN /\ Called(t, "set_payment_paid") => paid
               /\ Cardinality(CallsOf(t, "set_payment_paid")) <= 1
               /\ Called(t, "set_order_hold") =>
                     (Called(t, "set_payment_paid") <=> paid)
               /\ task[t].pc \notin ProcessPcs =>
                     /\ Cardinality(CallsOf(t, "set_order_hold")) = 1
                     /\ \A i \in CallsOf(t, "set_payment_paid") :
                        \A j \in CallsOf(t, "set_order_hold") : i < j

C27_Witness ==
    \E t \in Tasks :
        /\ task[t].pc \notin ProcessPcs
        /\ task[t].invoked # <<>>
        /\ task[t].outcome = "synced"
        /\ InvokedOrder(t).order_status = Some("C")
        /\ InvokedOrder(t).virtuemart_paymentmethod_id = Some(5)
        /\ ~Called(t, "set_payment_paid")
        /\ Called(t, "set_order_hold")

\* how many of the outcomes are `o`
OutcomeCount(seq, o) == Cardinality({i \in DOMAIN seq : seq[i] = o})

\* C28: each process_order invocation makes sync_shop increment exactly
\* one of synced_orders, skipped_orders, error_orders by exactly one, the
\* one matching the outcome; at every point of a run each counter equals
\* the number of orders so far with that outcome, and no counter ever
\* decreases.
C28_OneCounterPerOrder ==
    [][\A t \in Tasks :
          LET old == task[t].stats
              new == task'[t].stats
              o == task'[t].outcome
              inside == task'[t].pc \in ProcessPcs \cup {"loop", "done", "batch_check"}
          IN /\ OrderEnds(t) =>
                  /\ new.synced_orders = old.synced_orders + (IF o = "synced" THEN 1 ELSE 0)
                  /\ new.skipped_orders = old.skipped_orders + (IF o = "skipped" THEN 1 ELSE 0)
                  /\ new.error_orders = old.error_orders + (IF o = "error" THEN 1 ELSE 0)
                  /\ o \in {"synced", "skipped", "error"}
                  /\ SYNC_STATS'[task[t].shop] = new
             /\ (InSyncShop(t) /\ inside) =>
                  /\ new.synced_orders = OutcomeCount(task'[t].outcomes, "synced")
                  /\ new.skipped_orders = OutcomeCount(task'[t].outcomes, "skipped")
                  /\ new.error_orders = OutcomeCount(task'[t].outcomes, "error")
                  /\ new.synced_orders >= old.synced_orders
                  /\ new.skipped_orders >= old.skipped_orders
                  /\ new.error_orders >= old.error_orders]_vars

C28_Witness ==
    \E t \in Tasks :
        /\ task[t].pc = "loop"
        /\ task[t].outcomes = <<"synced", "error">>
        /\ task[t].stats.synced_orders = 1
        /\ task[t].stats.error_orders = 1
        /\ task[t].stats.skipped_orders = 0

\* the remote sales orders created from the order the current (or last)
\* process_order invocation of task t is about
HeadersOf(t) ==
    {i \in DOMAIN orders : orders[i].src = <<task[t].shop, LastInvoked(t)>>}

\* C29: a source order whose header was created remotely but whose
\* line-item attach failed is never classified as skipped by a later run
\* while the remote order still has no line items.
C29_HeaderWithoutItemsNotSkipped ==
    \A t \in Tasks :
        (/\ task[t].pc = "loop"
         /\ task[t].invoked # <<>>
         /\ task[t].outcome = "skipped"
         /\ HeadersOf(t) # {})
        => \E i \in HeadersOf(t) : orders[i].items

\* C30: when sync_shop returns Ok, aborted is true iff at least one fetched
\* order was never handed to process_order, so aborted implies
\* synced + skipped + error < total; an abort requested after the last
\* order was begun, or with no fetched order, leaves aborted false.
C30_AbortedIffOrdersLeft ==
    \A t \in Tasks :
        (Returned(t) /\ task[t].ret = "Ok") =>
            LET st == task[t].stats
                n == Len(task[t].fetched)
            IN /\ st.aborted <=> Len(task[t].invoked) < n
               /\ st.aborted => Counted(st) < st.total_orders
               /\ st.total_orders = n
               /\ (task[t].heldAt # None /\ task[t].heldAt[1] >= n) => ~st.aborted
               /\ n = 0 => ~st.aborted

C30_Witness ==
    \E t \in Tasks :
        /\ Returned(t)
        /\ task[t].ret = "Ok"
        /\ ABORT_FLAG
        /\ task[t].heldAt = Some(MaxOrders)
        /\ Len(task[t].fetched) = MaxOrders
        /\ Len(task[t].invoked) = MaxOrders
        /\ ~task[t].stats.aborted

\* the step is one of task t inside sync_shop, or sync_shop's return
SyncShopStep(t) ==
    /\ task[t].pc \in ProcessPcs \cup {"sync_shop", "loop"}
    /\ task'[t] # task[t]
    /\ task'[t].pc \in ProcessPcs \cup {"loop", "done", "batch_check"}

\* the entry of shop k, None when the store has none
Entry(store, k) == IF k \in DOMAIN store THEN Some(store[k]) ELSE None

\* C31: a sync_shop run for a shop writes only that shop's entry of the
\* stats store; the entry of every other shop id is unchanged by the run,
\* also within a multi-shop batch.
C31_OnlyOwnEntryWritten ==
    [][\A t \in Tasks :
          SyncShopStep(t) =>
             \A k \in (DOMAIN SYNC_STATS \cup DOMAIN SYNC_STATS') \ {task[t].shop} :
                Entry(SYNC_STATS', k) = Entry(SYNC_STATS, k)]_vars

C31_Witness ==
    \E t \in Tasks :
        /\ IsBatch(t)
        /\ task[t].shop = "c"
        /\ task[t].pc = "loop"
        /\ task[t].stats.synced_orders >= 1
        /\ SYNC_STATS["c"] = task[t].stats
        /\ "a" \in DOMAIN SYNC_STATS
        /\ SYNC_STATS["a"].total_orders = MaxOrders
        /\ SYNC_STATS["a"].synced_orders = MaxOrders

\* C32: if sync_shop fails before its initial stats are published (pool
\* creation or order fetch fails), the shop's entry of the stats store is
\* unchanged: it still holds what the previous run left.
C32_EarlyFailureKeepsEntry ==
    [][\A t \in Tasks :
          (task[t].pc = "sync_shop" /\ task'[t].ret = "Err") =>
             /\ Entry(SYNC_STATS', task[t].shop) = Entry(SYNC_STATS, task[t].shop)
             /\ SYNC_STATS' = SYNC_STATS
             /\ task'[t].invoked = <<>>]_vars

C32_Witness ==
    \E t \in Tasks :
        /\ Returned(t)
        /\ task[t].ret = "Err"
        /\ task[t].second
        /\ PrevClean(task[t].shop)
        /\ SYNC_STATS[task[t].shop].synced_orders + SYNC_STATS[task[t].shop].skipped_orders >= 1

\* C33: every background batch started by start_multi_sync_command or
\* start_scheduled_sync eventually finishes and emits multi-sync-complete,
\* provided each database and remote call returns: also when every shop
\* fails, a shop id is unknown, or the user aborts.
C33_BatchFinishes ==
    \A t \in Tasks :
        (task[t].pc = "sync_multiple_shops")
            ~> (task[t].pc = "done" /\ task[t].batch_event = "multi-sync-complete")

C33_Witness ==
    \E t \in Tasks :
        /\ task[t].pc = "done"
        /\ task[t].batch_event = "multi-sync-complete"
        /\ task[t].requested = <<"x", "b">>
        /\ task[t].abortReq
        /\ JournalIds(t, "log-error") = <<"x">>
        /\ JournalIds(t, "sync-error") = <<"b">>
        /\ JournalIds(t, "sync-complete") = <<>>

\* C34: in every reachable state every entry of the stats store has
\* sync_hours > 0, and every sync_shop invocation made by a start command
\* or by sync_multiple_shops receives hours > 0.
C34_HoursPositive ==
    /\ \A k \in DOMAIN SYNC_STATS : SYNC_STATS[k].sync_hours > 0
    /\ \A t \in Tasks :
          Visits(task[t]) >= 1 =>
             /\ task[t].hours > 0
             /\ task[t].pc \in ProcessPcs \cup {"loop"} => task[t].stats.sync_hours > 0

C34_Witness ==
    /\ \E t \in Tasks :
          /\ task[t].kind = "single"
          /\ InSyncShop(t)
          /\ task[t].hours = 12
          /\ SYNC_STATS["a"] = task[t].stats
          /\ task[t].stats.sync_hours = 12
    /\ "b" \in DOMAIN SYNC_STATS
    /\ SYNC_STATS["b"].sync_hours = 48

\* C35: update_shop_sync_hours with hours > 0 changes nothing in the stats
\* store except the target shop's sync_hours (the counters and aborted of
\* that shop and every other shop's entry are unchanged), creating an
\* entry with default values when the shop has none; with hours <= 0 it
\* returns a validation error and changes nothing.
C35_SyncHoursFrame ==
    Applied("update_shop_sync_hours") =>
        LET before == call.args.store
            shop_id == call.args.shop_id
            hours == call.args.hours
        IN IF hours > 0
           THEN /\ call.result = Some("Ok")
                /\ DOMAIN SYNC_STATS = DOMAIN before \cup {shop_id}
                /\ \A k \in DOMAIN before \ {shop_id} : SYNC_STATS[k] = before[k]
                /\ SYNC_STATS[shop_id].sync_hours = hours
                /\ SYNC_STATS[shop_id].shop_id = shop_id
                /\ \A f \in {"total_orders", "synced_orders", "skipped_orders", "error_orders"} :
                      SYNC_STATS[shop_id][f] =
                         IF shop_id \in DOMAIN before THEN before[shop_id][f] ELSE 0
                /\ SYNC_STATS[shop_id].aborted =
                      IF shop_id \in DOMAIN before THEN before[shop_id].aborted ELSE FALSE
           ELSE /\ call.result = Some("Err")
                /\ SYNC_STATS = before

C35_Witness ==
    /\ Applied("update_shop_sync_hours")
    /\ call.args.shop_id = "a"
    /\ call.args.hours = 48
    /\ DOMAIN call.args.store = {"a", "b"}
    /\ SYNC_STATS["a"].sync_hours = 48
    /\ SYNC_STATS["a"].aborted
    /\ SYNC_STATS["a"].skipped_orders = 1
    /\ SYNC_STATS["b"] = call.args.store["b"]

\* C36: after any sequence of add_shop, update_shop, remove_shop and
\* set_current_shop applied to a valid configuration, whether each call
\* succeeds or is rejected, shop ids are pairwise distinct, the shop list
\* is non-empty, and current_shop_index is less than the number of shops.
C36_ConfigStaysValid ==
    /\ \A i, j \in DOMAIN config.shops :
          config.shops[i].id = config.shops[j].id => i = j
    /\ Len(config.shops) >= 1
    /\ config.current_shop_index \in 0..(Len(config.shops) - 1)

C36_Witness ==
    /\ Applied("remove_shop")
    /\ call.result = Some("Ok")
    /\ Len(config.shops) = 1
    /\ config.current_shop_index = 0
    /\ config.shops[1].name = "n1"

\* C37: remove_shop of a shop other than the current one leaves the
\* current shop unchanged: the shop id that get_current_shop returns is
\* the same before and after the removal.
C37_RemoveKeepsCurrentShop ==
    [][(/\ call'.fn = "remove_shop"
        /\ call'.result = Some("Ok")
        /\ call'.args # AppConfig_get_current_shop(config).id)
       => AppConfig_get_current_shop(config').id = AppConfig_get_current_shop(config).id]_vars

\* C38: get_current_stats (get_sync_stats without a shop id) returns the
\* stats entry of the current shop; when the stats store is empty it
\* returns the default stats (all counters 0, aborted false, sync_hours 24).
C38_CurrentStatsOfCurrentShop ==
    \A snapshot \in get_sync_stats(SYNC_STATS, None) :
        IF DOMAIN SYNC_STATS = {}
        THEN snapshot = [shop_id |-> "", total_orders |-> 0, synced_orders |-> 0,
                         skipped_orders |-> 0, error_orders |-> 0, aborted |-> FALSE,
                         sync_hours |-> 24]
        ELSE snapshot = get_shop_stats(SYNC_STATS, AppConfig_get_current_shop(config).id)

====
